---- MODULE Spec2Model ----
(***************************************************************************)
(* Model of the session logger hook (hooks/scripts/log-command.py).        *)
(*                                                                         *)
(* File and directory names are sequences of one-character strings, so     *)
(* that the substring tests and regular expressions of the source are      *)
(* computed as the source computes them.  The empty sequence stands for    *)
(* Python's None and for the empty string: the source only ever tests      *)
(* names for truthiness.                                                   *)
(***************************************************************************)
EXTENDS Integers, Sequences, FiniteSets, TLC

\* ------------------------------------------------------------------ bounds

\* Hook invocations in one behaviour.
MaxSteps == 3

\* Injected I/O faults in one hook invocation.
MaxFaults == 1

\* ------------------------------------------------------------- characters

None == << >>

LowerChars ==
    {"a","b","c","d","e","f","g","h","i","j","k","l","m",
     "n","o","p","q","r","s","t","u","v","w","x","y","z"}

DigitChars == {"0","1","2","3","4","5","6","7","8","9"}

\* Python's \w on the characters the model uses.
WordChars == LowerChars \cup DigitChars \cup {"_", "P"}

\* The characters sanitize_dirname replaces.
UnsafeChars == {"<", ">", ":", "/", "|", "?", "*"}

US == <<"_">>
US2 == <<"_","_">>
DASH2 == <<"-","-">>
DOT == <<".">>
DOTLOG == <<".","l","o","g">>
SESSLOG == <<"s","e","s","s","l","o","g">>
SHELL == <<"s","h","e","l","l">>
TASKS == <<"t","a","s","k","s">>
PYTHON == <<"P","y","t","h","o","n","_">>

\* ------------------------------------------------------ string primitives

\* s[i..] starts with p (Python: s.startswith(p, i-1)).
HasAt(s, i, p) ==
    /\ i >= 1
    /\ i + Len(p) - 1 <= Len(s)
    /\ \A k \in 1..Len(p) : s[i + k - 1] = p[k]

StartsWith(s, p) == HasAt(s, 1, p)

EndsWith(s, p) == Len(p) <= Len(s) /\ HasAt(s, Len(s) - Len(p) + 1, p)

\* Python: p in s.
Contains(s, p) == \E i \in 1..(Len(s) - Len(p) + 1) : HasAt(s, i, p)

\* s[i..] (1-based, empty past the end).
From(s, i) == IF i > Len(s) THEN << >> ELSE SubSeq(s, i, Len(s))

\* s[..n]
Take(s, n) == IF n >= Len(s) THEN s ELSE SubSeq(s, 1, n)

AllIn(s, chars) == \A k \in 1..Len(s) : s[k] \in chars

\* Python: s.replace(old, new), every non-overlapping occurrence, left to right.
RECURSIVE ReplaceFrom(_, _, _, _)
ReplaceFrom(s, i, old, new) ==
    IF i > Len(s) THEN << >>
    ELSE IF HasAt(s, i, old)
         THEN new \o ReplaceFrom(s, i + Len(old), old, new)
         ELSE <<s[i]>> \o ReplaceFrom(s, i + 1, old, new)

Replace(s, old, new) == IF Len(old) = 0 THEN s ELSE ReplaceFrom(s, 1, old, new)

Max(S) == CHOOSE x \in S : \A y \in S : y <= x

Min(S) == CHOOSE x \in S : \A y \in S : x <= y

\* ------------------------------------------------------------ digit codec

DigitOf(n) ==
    CASE n = 0 -> "0" [] n = 1 -> "1" [] n = 2 -> "2" [] n = 3 -> "3"
      [] n = 4 -> "4" [] n = 5 -> "5" [] n = 6 -> "6" [] n = 7 -> "7"
      [] n = 8 -> "8" [] n = 9 -> "9"

ValueOf(c) ==
    CASE c = "0" -> 0 [] c = "1" -> 1 [] c = "2" -> 2 [] c = "3" -> 3
      [] c = "4" -> 4 [] c = "5" -> 5 [] c = "6" -> 6 [] c = "7" -> 7
      [] c = "8" -> 8 [] c = "9" -> 9

\* Python: f"{seq:03d}" for 0 <= seq (at least three digits, zero padded).
RECURSIVE Decimal(_)
Decimal(n) == IF n < 10 THEN <<DigitOf(n)>> ELSE Decimal(n \div 10) \o <<DigitOf(n % 10)>>

Format03d(n) ==
    LET d == Decimal(n)
    IN  IF Len(d) = 1 THEN <<"0","0">> \o d
        ELSE IF Len(d) = 2 THEN <<"0">> \o d
        ELSE d

\* Python: int(s) for a string of three digits.
ParseInt3(s) == 100 * ValueOf(s[1]) + 10 * ValueOf(s[2]) + ValueOf(s[3])

\* ----------------------------------------------------------- name builders

SanitizeMaxLen == 50

\* sanitize_dirname: unsafe characters become "_", then truncate.
SanitizeDirname(name) ==
    Take([k \in 1..Len(name) |-> IF name[k] \in UnsafeChars THEN "_" ELSE name[k]],
         SanitizeMaxLen)

\* build_session_directory
BuildSessionDirectory(session_name, session_id, username) ==
    IF session_name # None
    THEN SanitizeDirname(session_name) \o US2 \o session_id \o US \o username
    ELSE US2 \o session_id \o US \o username

\* build_filename(prefix, file_type, shell, session_name, session_id, username, seq);
\* seq = -1 stands for seq=None.
BuildFilename(prefix, file_type, shell, session_name, session_id, username, seq) ==
    IF session_name # None
    THEN IF seq # -1
         THEN DOT \o prefix \o file_type \o US \o shell \o US2 \o session_name
                  \o DASH2 \o Format03d(seq) \o US2 \o session_id \o US \o username \o DOTLOG
         ELSE DOT \o prefix \o file_type \o US \o shell \o US2 \o session_name
                  \o US2 \o session_id \o US \o username \o DOTLOG
    ELSE DOT \o prefix \o file_type \o US \o shell \o US \o session_id \o US \o username \o DOTLOG

\* SessionContext.get_filename_context
GetFilenameContext(shell, session_name, session_id, username) ==
    IF session_name # None
    THEN shell \o US2 \o session_name \o US2 \o session_id \o US \o username
    ELSE shell \o US \o session_id \o US \o username

\* SessionContext.get_task_filename_context
GetTaskFilenameContext(shell, session_name, session_id, username) ==
    IF session_name # None
    THEN shell \o US2 \o session_name \o US2 \o session_id \o US2 \o username
    ELSE shell \o US2 \o session_id \o US2 \o username

\* ---------------------------------------------------------- name matchers

\* extract_name_from_directory: None for a name starting "__"; else group 1 of
\* ^(.+)__{id}_ (greedy: the longest prefix that the rest still follows).
ExtractNameFromDirectory(dir_name, session_id) ==
    IF StartsWith(dir_name, US2) THEN None
    ELSE LET tail == US2 \o session_id \o US
             ks == {k \in 1..Len(dir_name) : HasAt(dir_name, k + 1, tail)}
         IN  IF ks = {} THEN None ELSE Take(dir_name, Max(ks))

\* has_sequence_number: re.search(r"--\d{3}__", name)
HasSequenceNumber(name) ==
    \E i \in 1..Len(name) :
        /\ HasAt(name, i, DASH2)
        /\ i + 6 <= Len(name)
        /\ name[i + 2] \in DigitChars
        /\ name[i + 3] \in DigitChars
        /\ name[i + 4] \in DigitChars
        /\ HasAt(name, i + 5, US2)

\* The pattern of find_session_files:
\*   ^\.{prefix}{type}_[^_]+_.*{id}_\w+(\.log)?$
MatchesSessionFile(name, session_id, prefix, file_type) ==
    LET head == DOT \o prefix \o file_type \o US
        h == Len(head)
        UserTail(t) ==
            \/ (Len(t) >= 1 /\ AllIn(t, WordChars))
            \/ (EndsWith(t, DOTLOG) /\ Len(t) > 4
                  /\ AllIn(Take(t, Len(t) - 4), WordChars))
    IN  /\ StartsWith(name, head)
        /\ \E a \in (h + 1)..Len(name) :
              /\ \A k \in (h + 1)..a : name[k] # "_"
              /\ HasAt(name, a + 1, US)
              /\ \E p \in (a + 2)..Len(name) :
                    /\ HasAt(name, p, session_id \o US)
                    /\ UserTail(From(name, p + Len(session_id) + 1))

\* The pattern of find_max_sequence:
\*   ^\.{prefix}{type}_{shell}__{name}--(\d{3})__{id}_{user}(\.log)?$
\* The sequence number carried by name, or -1 when the pattern does not match.
SequenceOf(name, prefix, file_type, shell, session_name, session_id, username) ==
    LET head == DOT \o prefix \o file_type \o US \o shell \o US2 \o session_name \o DASH2
        tail == US2 \o session_id \o US \o username
        h == Len(head)
        rest == From(name, h + 4)
    IN  IF /\ StartsWith(name, head)
           /\ Len(name) >= h + 3
           /\ name[h + 1] \in DigitChars
           /\ name[h + 2] \in DigitChars
           /\ name[h + 3] \in DigitChars
           /\ (rest = tail \/ rest = tail \o DOTLOG)
        THEN ParseInt3(SubSeq(name, h + 1, h + 3))
        ELSE -1

\* The unnamed -> named rewrite of _rename_files_for_session_change:
\*   pattern ^(\.[\w]+_[\w.]+)_{id}_ ; both groups greedy with backtracking, so
\*   the first repetition is as long as possible, then the second.
\* Returns the new name, or None when the pattern does not match.
InsertNameBeforeGuid(old_name, new_session_name, session_id) ==
    LET tail == US \o session_id \o US
        DotWord == WordChars \cup {"."}
        n == Len(old_name)
        \* the places j where _{id}_ follows old_name[..j]
        js == {j \in 3..n : HasAt(old_name, j + 1, tail)}
        \* (i, j): [\w]+ is old_name[2..i], "_" at i+1, [\w.]+ is old_name[i+2..j]
        Ok(i, j) ==
            /\ i >= 2 /\ j >= i + 2
            /\ old_name[i + 1] = "_"
            /\ \A k \in 2..i : old_name[k] \in WordChars
            /\ \A k \in (i + 2)..j : old_name[k] \in DotWord
        is == IF n = 0 \/ js = {} THEN {}
              ELSE IF old_name[1] # "." THEN {}
              ELSE {i \in 2..n : \E j \in js : Ok(i, j)}
    IN  IF is = {} THEN None
        ELSE LET i == Max(is)
                 j == Max({jj \in js : Ok(i, jj)})
                 prefix == Take(old_name, j)
                 \* old_name[len(match.group(0))-1:] keeps "_{user}..."
                 suffix == From(old_name, j + Len(tail))
             IN  prefix \o US2 \o new_session_name \o US2 \o session_id \o suffix

\* ----------------------------------------------------------- file system

(* A world is the part of the disk under ~/.claude/sesslogs:
     dirs   the names of the session directories,
     files  the log files: [dir, name, content, mtime], at most one per
            (dir, name); content is the sequence of blocks appended so far and
            mtime the clock value of the invocation that last wrote it.      *)
EmptyWorld == [dirs |-> {}, files |-> {}]

FileExists(w, d, n) == \E f \in w.files : f.dir = d /\ f.name = n

FileAt(w, d, n) == CHOOSE f \in w.files : f.dir = d /\ f.name = n

NamesIn(w, d) == {f.name : f \in {g \in w.files : g.dir = d}}

\* os.rename on a file: the destination, if there is one, is replaced.
RenameFile(w, d, src, dst) ==
    LET f == FileAt(w, d, src)
    IN  [w EXCEPT !.files =
            {g \in w.files : ~(g.dir = d /\ g.name \in {src, dst})}
                \cup {[f EXCEPT !.name = dst]}]

\* Path.rename on a directory whose destination does not exist.
RenameDir(w, src, dst) ==
    [dirs |-> (w.dirs \ {src}) \cup {dst},
     files |-> {IF f.dir = src THEN [f EXCEPT !.dir = dst] ELSE f : f \in w.files}]

\* Every way to list a finite set (the order of Path.iterdir is unspecified).
RECURSIVE Orders(_)
Orders(S) ==
    IF S = {} THEN {<< >>}
    ELSE UNION {{<<x>> \o o : o \in Orders(S \ {x})} : x \in S}

\* safe_rename(src, dst): [w, ok]
SafeRename(w, d, src, dst, faults) ==
    IF src = dst THEN [w |-> w, ok |-> TRUE]
    ELSE IF FileExists(w, d, dst) THEN [w |-> w, ok |-> FALSE]
    ELSE IF "file_rename" \in faults \/ ~FileExists(w, d, src)
         THEN [w |-> w, ok |-> FALSE]
         ELSE [w |-> RenameFile(w, d, src, dst), ok |-> TRUE]

\* NewNameForSessionChange without its unnamed -> named branch.
NewNameReplaceOnly(fn, old_session_name, new_session_name, session_id) ==
    IF old_session_name # None /\ Contains(fn, old_session_name)
    THEN Replace(fn, old_session_name, new_session_name)
    ELSE None

\* The name _rename_files_for_session_change computes for file fn (None: the
\* file is left alone).
NewNameForSessionChange(fn, old_session_name, new_session_name, session_id) ==
    IF old_session_name # None
    THEN IF Contains(fn, old_session_name)
         THEN Replace(fn, old_session_name, new_session_name)
         ELSE None
    ELSE InsertNameBeforeGuid(fn, new_session_name, session_id)

\* RenameOneForSessionChange without the test that the new name is free.
RenameOneOverwriting(w, d, fn, new_name, faults) ==
    IF new_name # None /\ new_name # fn
       /\ "file_rename" \notin faults
       /\ FileExists(w, d, fn)
    THEN RenameFile(w, d, fn, new_name)
    ELSE w

\* One iteration of its loop: rename fn to new_name unless that name is taken.
RenameOneForSessionChange(w, d, fn, new_name, faults) ==
    IF new_name # None /\ new_name # fn
       /\ ~FileExists(w, d, new_name)
       /\ "file_rename" \notin faults
       /\ FileExists(w, d, fn)
    THEN RenameFile(w, d, fn, new_name)
    ELSE w

RECURSIVE RenameInOrder(_, _, _, _, _)
RenameInOrder(w, d, order, new_names, faults) ==
    IF order = << >> THEN w
    ELSE RenameInOrder(
            RenameOneForSessionChange(w, d, Head(order), new_names[Head(order)], faults),
            d, Tail(order), new_names, faults)

\* One way to list a finite set.
RECURSIVE SomeOrder(_)
SomeOrder(S) ==
    IF S = {} THEN << >>
    ELSE LET x == CHOOSE y \in S : TRUE IN <<x>> \o SomeOrder(S \ {x})

(* _rename_files_for_session_change: the worlds it can leave, one per order in
   which Path.iterdir lists the directory.  The new name of a file depends on
   its old name alone, so the order matters only between the files that
   contend for a name: those whose new name is the name of a file of the
   directory or the new name of another file.  The other files that move are
   renamed the same way wherever they come in the listing.                  *)
RenameFilesForSessionChange(w, d, old_session_name, new_session_name, session_id, faults) ==
    LET names == NamesIn(w, d)
        new_names == [fn \in names |->
                        NewNameForSessionChange(fn, old_session_name,
                                                new_session_name, session_id)]
        movers == {fn \in names : new_names[fn] # None /\ new_names[fn] # fn}
        taking == {a \in movers :
                      \/ new_names[a] \in names
                      \/ \E b \in movers \ {a} : new_names[b] = new_names[a]}
        contenders == taking \cup {a \in movers : \E b \in taking : new_names[b] = a}
    IN  {RenameInOrder(w, d, order \o SomeOrder(movers \ contenders), new_names, faults)
           : order \in Orders(contenders)}

\* find_directory_by_guid: the directories it may return (the first listed match).
FindDirectoryByGuid(w, session_id) == {d \in w.dirs : Contains(d, session_id)}

\* ReconcileSessionDirectory that creates the expected directory whenever it
\* is missing, instead of renaming the one the session has.
ReconcileByCreating(w, session_id, expected_name, username, faults) ==
    LET expected_dir == BuildSessionDirectory(expected_name, session_id, username)
    IN  IF "dir_mkdir" \in faults /\ expected_dir \notin w.dirs
        THEN {[w |-> w, dir |-> expected_dir, raised |-> TRUE]}
        ELSE {[w |-> [w EXCEPT !.dirs = @ \cup {expected_dir}],
               dir |-> expected_dir, raised |-> FALSE]}

\* reconcile_session_directory: the outcomes [w, dir, raised].
ReconcileSessionDirectory(w, session_id, expected_name, username, faults) ==
    LET expected_dir == BuildSessionDirectory(expected_name, session_id, username)
        found == FindDirectoryByGuid(w, session_id)
    IN  IF expected_dir \in w.dirs
        THEN {[w |-> w, dir |-> expected_dir, raised |-> FALSE]}
        ELSE IF found # {}
        THEN UNION {
               IF "dir_rename" \in faults
               THEN {[w |-> w, dir |-> existing_dir, raised |-> FALSE]}
               ELSE LET old_name == ExtractNameFromDirectory(existing_dir, session_id)
                        w1 == RenameDir(w, existing_dir, expected_dir)
                    IN  IF expected_name # None
                        THEN {[w |-> w2, dir |-> expected_dir, raised |-> FALSE]
                                : w2 \in RenameFilesForSessionChange(
                                            w1, expected_dir, old_name, expected_name,
                                            session_id, faults)}
                        ELSE {[w |-> w1, dir |-> expected_dir, raised |-> FALSE]}
               : existing_dir \in found}
        ELSE IF "dir_mkdir" \in faults
        THEN {[w |-> w, dir |-> expected_dir, raised |-> TRUE]}
        ELSE {[w |-> [w EXCEPT !.dirs = @ \cup {expected_dir}],
               dir |-> expected_dir, raised |-> FALSE]}

\* get_effective_session_name: the names it may return.  The log root holds
\* directories only, so the branch for flat files is never taken.
GetEffectiveSessionName(w, session_id, session_name) ==
    IF session_name # None THEN {session_name}
    ELSE LET named == {d \in w.dirs :
                          /\ Contains(d, session_id)
                          /\ ~StartsWith(d, US2)
                          /\ ExtractNameFromDirectory(d, session_id) # None}
         IN  IF named = {} THEN {None}
             ELSE {ExtractNameFromDirectory(d, session_id) : d \in named}

\* ------------------------------------------------- per-category reconcile

\* find_session_files: the names in d matching the category's pattern.
FindSessionFiles(w, d, session_id, prefix, file_type) ==
    {n \in NamesIn(w, d) : MatchesSessionFile(n, session_id, prefix, file_type)}

\* find_max_sequence: the highest sequence number in d, -1 when there is none.
FindMaxSequence(w, d, prefix, file_type, shell, session_name, session_id, username) ==
    Max({-1} \cup {SequenceOf(n, prefix, file_type, shell, session_name,
                              session_id, username) : n \in NamesIn(w, d)})

\* sorted(files, key=mtime): every listing with the mtimes ascending (files of
\* equal mtime keep the order Path.iterdir gave them, which is unspecified).
SortedByMtime(w, d, names) ==
    {o \in Orders(names) :
        \A i \in 1..Len(o) : \A j \in 1..Len(o) :
            i < j => FileAt(w, d, o[i]).mtime <= FileAt(w, d, o[j]).mtime}

\* The loop over older_files of reconcile_single_category.
RECURSIVE SequenceOlderFiles(_, _, _, _, _, _, _, _, _, _, _)
SequenceOlderFiles(w, d, older, next_seq, prefix, file_type, shell, session_name, session_id, username, faults) ==
    IF older = << >> THEN w
    ELSE IF HasSequenceNumber(Head(older))
    THEN SequenceOlderFiles(w, d, Tail(older), next_seq, prefix, file_type, shell,
                            session_name, session_id, username, faults)
    ELSE LET seq_name == BuildFilename(prefix, file_type, shell, session_name,
                                       session_id, username, next_seq)
             r == SafeRename(w, d, Head(older), seq_name, faults)
         IN  SequenceOlderFiles(r.w, d, Tail(older),
                                IF r.ok THEN next_seq + 1 ELSE next_seq,
                                prefix, file_type, shell, session_name,
                                session_id, username, faults)

\* reconcile_single_category: the outcomes [w, target].
ReconcileSingleCategory(w, d, session_id, session_name, shell, username, prefix, file_type, faults) ==
    LET files == FindSessionFiles(w, d, session_id, prefix, file_type)
        target_name == BuildFilename(prefix, file_type, shell, session_name,
                                     session_id, username, -1)
    IN  IF files = {} THEN {[w |-> w, target |-> target_name]}
        ELSE IF Cardinality(files) = 1
        THEN LET only_file == CHOOSE n \in files : TRUE
             IN  IF only_file = target_name
                 THEN {[w |-> w, target |-> target_name]}
                 ELSE {[w |-> SafeRename(w, d, only_file, target_name, faults).w,
                        target |-> target_name]}
        ELSE {LET current_file == files_sorted[Len(files_sorted)]
                  older_files == SubSeq(files_sorted, 1, Len(files_sorted) - 1)
                  max_seq == FindMaxSequence(w, d, prefix, file_type, shell,
                                             session_name, session_id, username)
                  taken == current_file # target_name /\ FileExists(w, d, target_name)
                  w1 == IF current_file = target_name THEN w
                        ELSE IF taken
                        THEN SafeRename(w, d, current_file,
                                        BuildFilename(prefix, file_type, shell, session_name,
                                                      session_id, username, max_seq + 1),
                                        faults).w
                        ELSE SafeRename(w, d, current_file, target_name, faults).w
                  max_seq1 == IF taken THEN max_seq + 1 ELSE max_seq
              IN  [w |-> SequenceOlderFiles(w1, d, older_files, max_seq1 + 1, prefix,
                                            file_type, shell, session_name, session_id,
                                            username, faults),
                   target |-> target_name]
              : files_sorted \in SortedByMtime(w, d, files)}

\* The (prefix, file_type) pairs in the order reconcile_session_files visits them.
Categories ==
    << [key |-> "sesslog", prefix |-> << >>, file_type |-> SESSLOG],
       [key |-> "shell", prefix |-> << >>, file_type |-> SHELL],
       [key |-> "tasks", prefix |-> << >>, file_type |-> TASKS],
       [key |-> "Python_sesslog", prefix |-> PYTHON, file_type |-> SESSLOG],
       [key |-> "Python_shell", prefix |-> PYTHON, file_type |-> SHELL],
       [key |-> "Python_tasks", prefix |-> PYTHON, file_type |-> TASKS] >>

CategoryKeys == {Categories[i].key : i \in 1..Len(Categories)}

NoTargets == [k \in {} |-> None]

RECURSIVE ReconcileFrom(_, _, _, _, _, _, _, _, _)
ReconcileFrom(i, w, targets, d, session_id, session_name, shell, username, faults) ==
    IF i > Len(Categories) THEN {[w |-> w, targets |-> targets]}
    ELSE UNION {ReconcileFrom(i + 1, r.w,
                              [k \in DOMAIN targets \cup {Categories[i].key} |->
                                  IF k = Categories[i].key THEN r.target ELSE targets[k]],
                              d, session_id, session_name, shell, username, faults)
                  : r \in ReconcileSingleCategory(w, d, session_id, session_name, shell,
                                                  username, Categories[i].prefix,
                                                  Categories[i].file_type, faults)}

\* reconcile_session_files: the outcomes [w, targets]; targets maps a key to the
\* name of the file to write.
ReconcileSessionFiles(w, d, session_id, session_name, shell, username, faults) ==
    IF session_name = None THEN {[w |-> w, targets |-> NoTargets]}
    ELSE ReconcileFrom(1, w, NoTargets, d, session_id, session_name, shell, username, faults)

\* ----------------------------------------------------------------- append

(* A block is what one atomic_append call adds to a file:
     <<kind, time, run, name, gap, ovf, gaplog>>, kind one of
       "cmd"     the shell-log entry of the hook invocation at event time time,
       "entry"   its unified-log entry,
       "task"    its task-log entry,
       "marker"  the start marker of run number run, naming the session name,
       "torn"    a block of which only a part reached the file;
     gap is the number of blank lines written ahead of the content.         *)
Block(kind, stp, run, name) == <<kind, stp, run, name, 0>>

Torn(block) == Block("torn", block[2], block[3], block[4])

\* atomic_append(file_path, content, add_gap): what it writes for the content
\* of block.
WithGap(block, add_gap) == [block EXCEPT ![5] = IF add_gap THEN 1 ELSE 0]

OVERFLOW1 == <<".","o","v","e","r","f","l","o","w",".","1">>

\* Replace the content of (d, n), creating the file when it is absent.
WriteFile(w, d, n, content, now) ==
    [w EXCEPT !.files =
        {f \in w.files : ~(f.dir = d /\ f.name = n)}
            \cup {[dir |-> d, name |-> n, content |-> content, mtime |-> now]}]

ContentOf(w, d, n) == IF FileExists(w, d, n) THEN FileAt(w, d, n).content ELSE << >>

\* _write_to_overflow.  Every overflow file of the model is far below the
\* 1,000,000 byte ceiling, so the loop stops at n = 1.
WriteToOverflow(w, d, n, block, now, faults) ==
    IF "overflow_write" \in faults THEN w
    ELSE WriteFile(w, d, n \o OVERFLOW1,
                   Append(ContentOf(w, d, n \o OVERFLOW1), block), now)

(* shutil.move(temp, target), by what it does: os.rename, and when that raises
   OSError, copy the temp file over the target (open for writing truncates it)
   and unlink the temp file.  The outcomes, selected by the injected fault:
     none           renamed: the target holds the new content;
     move_denied    os.rename failed and the target could not be opened for
                    the copy: the target is as it was; raises;
     move_partial   os.rename failed and the copy failed part way: the target
                    is left empty or holding part of the new block; raises;
     move_unlink    os.rename failed, the copy completed, unlinking the temp
                    file failed: the target holds the new content; raises.   *)
MoveOutcomes(w, d, n, block, now, faults) ==
    LET existing == ContentOf(w, d, n)
        full == WriteFile(w, d, n, Append(existing, block), now)
    IN  IF "move_denied" \in faults
        THEN {[w |-> w, raised |-> TRUE]}
        ELSE IF "move_partial" \in faults
        THEN {[w |-> WriteFile(w, d, n, << >>, now), raised |-> TRUE],
              [w |-> WriteFile(w, d, n, Append(existing, Torn(block)), now),
               raised |-> TRUE]}
        ELSE IF "move_unlink" \in faults
        THEN {[w |-> full, raised |-> TRUE]}
        ELSE {[w |-> full, raised |-> FALSE]}

\* AtomicAppend that writes the new block alone, dropping what the file held.
AtomicAppendForgetting(w, d, n, block, now, faults) ==
    {[w |-> WriteFile([w EXCEPT !.dirs = @ \cup {d}], d, n, <<block>>, now),
      raised |-> FALSE]}

\* atomic_append(file_path, content): the outcomes [w, raised]; raised is an
\* exception that leaves atomic_append.  parent.mkdir(parents=True,
\* exist_ok=True) creates the directory when it is gone and is the one call
\* outside the try; nothing makes it fail here, so raised is always FALSE.
AtomicAppend(w, d, n, block, now, faults) ==
         LET w0 == [w EXCEPT !.dirs = @ \cup {d}]
         IN  IF \/ "mkstemp" \in faults
                \/ ("read" \in faults /\ FileExists(w0, d, n))
                \/ "write" \in faults
             THEN {[w |-> WriteToOverflow(w0, d, n, block, now, faults),
                    raised |-> FALSE]}
             ELSE {[w |-> IF m.raised
                          THEN WriteToOverflow(m.w, d, n, block, now, faults)
                          ELSE m.w,
                    raised |-> FALSE]
                    : m \in MoveOutcomes(w0, d, n, block, now, faults)}

\* A sequence of atomic_append calls <<name, block>>, stopping at the first
\* that raises.
RECURSIVE AppendAll(_, _, _, _, _)
AppendAll(w, d, writes, now, faults) ==
    IF writes = << >> THEN {[w |-> w, raised |-> FALSE]}
    ELSE UNION {IF r.raised THEN {r}
                ELSE AppendAll(r.w, d, Tail(writes), now, faults)
                  : r \in AtomicAppend(w, d, Head(writes)[1], Head(writes)[2], now, faults)}

\* ---------------------------------------------------------------- markers

\* count_session_markers
CountSessionMarkers(w, d, n) ==
    LET c == ContentOf(w, d, n)
    IN  Cardinality({i \in 1..Len(c) : c[i][1] = "marker"})

\* get_run_number: [run, counter]; counter 0 stands for an absent .run file.
GetRunNumber(counter, w, d, unified) ==
    IF counter # 0 THEN counter ELSE CountSessionMarkers(w, d, unified) + 1

\* is_new_session_run that does not look at the flag.
IsNewSessionRunAlways(was_started) == TRUE

\* is_new_session_run: the .started flag of the session is not there.
IsNewSessionRun(was_started) == ~was_started

\* --------------------------------------------------------------- time gap

\* Event times count ticks; datetime.now() is finer than the second that the
\* timestamp of an entry keeps.
TicksPerSecond == 2

\* gap_seconds of check_time_gap
GapSeconds == 1800

\* format_datetime("full", ts): the second ts falls in.
FormatDatetime(ts) == ts \div TicksPerSecond

\* datetime.strptime(text, "%Y-%m-%d %H:%M:%S"): the start of the second.
ParseDatetime(seconds) == seconds * TicksPerSecond

\* The kinds of block whose last line starts with a [[timestamp]].
Stamped == {"cmd", "entry", "task"}

\* check_time_gap with a threshold one second late.
CheckTimeGapLate(w, d, n, event_time) ==
    LET c == ContentOf(w, d, n)
    IN  /\ c # << >>
        /\ c[Len(c)][1] \in Stamped
        /\ event_time - ParseDatetime(FormatDatetime(c[Len(c)][2]))
               > (GapSeconds + 1) * TicksPerSecond

\* check_time_gap(file_path, "full", event_time): the last line of a start
\* marker is a rule without a timestamp, and the last line of a torn block
\* is cut.
CheckTimeGap(w, d, n, event_time) ==
    LET c == ContentOf(w, d, n)
    IN  /\ c # << >>
        /\ c[Len(c)][1] \in Stamped
        /\ event_time - ParseDatetime(FormatDatetime(c[Len(c)][2]))
               >= GapSeconds * TicksPerSecond

\* ---------------------------------------------------------- session logger

\* SessionLogger._get_file_path
GetFilePath(targets, key, shell, session_name, session_id, username) ==
    IF key \in DOMAIN targets THEN targets[key]
    ELSE IF key = "shell"
    THEN DOT \o SHELL \o US
             \o GetFilenameContext(shell, session_name, session_id, username) \o DOTLOG
    ELSE IF key = "sesslog"
    THEN DOT \o SESSLOG \o US
             \o GetFilenameContext(shell, session_name, session_id, username) \o DOTLOG
    ELSE DOT \o TASKS \o US
             \o GetTaskFilenameContext(shell, session_name, session_id, username) \o DOTLOG

\* A marker for the task history as well.
MarkerPathsWithTasks(shell_path, unified_path, task_path) ==
    <<shell_path, unified_path, task_path>>

\* _maybe_write_session_marker: the files that receive the start marker, in
\* the order written.
MarkerPaths(shell_path, unified_path, task_path) ==
    <<shell_path, unified_path>>

(* SessionLogger.__init__ from _reconcile_files on, followed by log_entry,
   in the session directory session_dir: the outcomes
   [w, started, counter, name, run, raised].                               *)
LogIntoDirectory(w, session_dir, effective_name, was_started, counter, session_id, session_name, shell, username, is_task, now, faults) ==
    UNION {
        LET shell_path == GetFilePath(rf.targets, "shell", shell, session_name,
                                      session_id, username)
            unified_path == GetFilePath(rf.targets, "sesslog", shell, session_name,
                                        session_id, username)
            task_path == GetFilePath(rf.targets, "tasks", shell, session_name,
                                     session_id, username)
            run == GetRunNumber(counter, rf.w, session_dir, unified_path)
            marker == Block("marker", now, run, effective_name)
            markers == IF ~IsNewSessionRun(was_started) THEN << >>
                       ELSE [i \in DOMAIN MarkerPaths(shell_path, unified_path, task_path)
                               |-> <<MarkerPaths(shell_path, unified_path, task_path)[i],
                                     marker>>]
            entries(w1) ==
                    << <<shell_path,
                         WithGap(Block("cmd", now, 0, None),
                                 CheckTimeGap(w1, session_dir, shell_path, now))>>,
                       <<unified_path,
                         WithGap(Block("entry", now, 0, None),
                                 CheckTimeGap(w1, session_dir, unified_path, now))>> >>
                          \o (IF is_task
                              THEN << <<task_path, Block("task", now, 0, None)>> >>
                              ELSE << >>)
        IN  UNION {
              IF m.raised
              THEN {[w |-> m.w, started |-> was_started,
                     counter |-> IF was_started THEN counter ELSE run,
                     name |-> effective_name, run |-> 0, raised |-> TRUE]}
              ELSE {[w |-> e.w, started |-> TRUE,
                     counter |-> IF was_started THEN counter ELSE run,
                     name |-> effective_name,
                     run |-> IF was_started THEN 0 ELSE run,
                     raised |-> e.raised]
                      : e \in AppendAll(m.w, session_dir, entries(m.w), now, faults)}
              : m \in AppendAll(rf.w, session_dir, markers, now, faults)}
        : rf \in ReconcileSessionFiles(w, session_dir, session_id, effective_name,
                                       shell, username, faults)}

(* SessionLogger(config, session, event_time) followed by log_entry: the
   outcomes [w, started, counter, name, run, raised] for one session, where
   started and counter are the session's .started flag and .run counter
   afterwards, name is the effective name the logger settled on and run is
   the run number of the start marker it wrote (0: it wrote none).          *)
LogWithSessionLogger(w, was_started, counter, session_id, session_name, shell, username, is_task, now, faults) ==
    UNION {UNION {
        IF rd.raised
        THEN {[w |-> rd.w, started |-> was_started, counter |-> counter,
               name |-> effective_name, run |-> 0, raised |-> TRUE]}
        ELSE LogIntoDirectory(rd.w, rd.dir, effective_name, was_started, counter,
                              session_id, session_name, shell, username, is_task,
                              now, faults)
        : rd \in ReconcileSessionDirectory(w, session_id, effective_name, username, faults)}
      : effective_name \in GetEffectiveSessionName(w, session_id, session_name)}

\* ---------------------------------------------------------- configuration

(* JSON values as json.load returns them.  Strings are character sequences;
   the keys of an object are the domain of keys.                             *)
JNull == [kind |-> "null"]

JInt(n) == [kind |-> "int", int |-> n]

JStr(s) == [kind |-> "str", str |-> s]

JBool(b) == [kind |-> "bool", bool |-> b]

JList(items) == [kind |-> "list", items |-> items]

JDict(f) == [kind |-> "dict", keys |-> f]

EmptyDict == JDict(<< >>)

\* What a config file can be: absent, not JSON, or JSON holding value.
AbsentFile == [kind |-> "absent"]

UnparseableFile == [kind |-> "unparseable"]

JsonFile(value) == [kind |-> "json", value |-> value]

\* The defaults and limits of Config and load_configuration.
DefaultVerbosity == 2

MaxVerbosity == 4

DefaultMaxLines == 50

MaxStderrLines == 1000

\* The action-only categories of the model, with their defaults.
ActionOnlyCategories == {"todo", "bash"}

CategoryChars(cat) ==
    IF cat = "todo" THEN <<"t","o","d","o">> ELSE <<"b","a","s","h">>

DefaultActionOnly == [cat \in ActionOnlyCategories |-> cat = "todo"]

\* Config(), the fields of the model; raised: load_configuration did not return.
DefaultConfig ==
    [raised |-> FALSE, verbosity |-> DefaultVerbosity, filter_include |-> << >>,
     action_only |-> DefaultActionOnly, failure_capture_enabled |-> FALSE,
     failure_capture_max_lines |-> DefaultMaxLines, datetime_mode |-> "full"]

ConfigRaised == [DefaultConfig EXCEPT !.raised = TRUE]

\* load_config_file
LoadConfigFile(file) == IF file.kind = "json" THEN file.value ELSE EmptyDict

\* merge_configs that lets the override replace a whole dictionary.
MergeConfigsShallow(base, override) ==
    JDict([k \in DOMAIN base.keys \cup DOMAIN override.keys |->
            IF k \in DOMAIN override.keys THEN override.keys[k] ELSE base.keys[k]])

\* merge_configs on two objects.
RECURSIVE MergeConfigs(_, _)
MergeConfigs(base, override) ==
    JDict([k \in DOMAIN base.keys \cup DOMAIN override.keys |->
            IF k \notin DOMAIN override.keys THEN base.keys[k]
            ELSE IF /\ k \in DOMAIN base.keys
                    /\ base.keys[k].kind = "dict"
                    /\ override.keys[k].kind = "dict"
            THEN MergeConfigs(base.keys[k], override.keys[k])
            ELSE override.keys[k]])

\* merge_configs(global_config, session_config) as load_configuration calls
\* it: base.copy() needs a dict or a list, override.items() a dict, and
\* result[key] = value a dict as soon as the override has a key.
MergeTopLevel(base, override) ==
    IF base.kind \notin {"dict", "list"} \/ override.kind # "dict"
    THEN [raised |-> TRUE, value |-> JNull]
    ELSE IF base.kind = "list"
    THEN [raised |-> DOMAIN override.keys # {}, value |-> base]
    ELSE [raised |-> FALSE, value |-> MergeConfigs(base, override)]

\* dict.get(key, default)
Get(d, key, default) == IF key \in DOMAIN d.keys THEN d.keys[key] ELSE default

\* Python: int(text) for a string; ok is FALSE for a ValueError.
RECURSIVE DecimalValue(_)
DecimalValue(text) ==
    IF text = << >> THEN 0
    ELSE 10 * DecimalValue(SubSeq(text, 1, Len(text) - 1)) + ValueOf(text[Len(text)])

IntOfText(text) ==
    IF text # << >> /\ AllIn(text, DigitChars)
    THEN [ok |-> TRUE, int |-> DecimalValue(text)]
    ELSE IF Len(text) > 1 /\ text[1] = "-" /\ AllIn(Tail(text), DigitChars)
    THEN [ok |-> TRUE, int |-> 0 - DecimalValue(Tail(text))]
    ELSE [ok |-> FALSE, int |-> 0]

\* Python: int(value) for a JSON value; ok is FALSE for ValueError and
\* TypeError.
IntOf(value) ==
    CASE value.kind = "int" -> [ok |-> TRUE, int |-> value.int]
      [] value.kind = "bool" -> [ok |-> TRUE, int |-> IF value.bool THEN 1 ELSE 0]
      [] value.kind = "str" -> IntOfText(value.str)
      [] OTHER -> [ok |-> FALSE, int |-> 0]

\* str.lower() on the characters of the model.
Lower(text) == [k \in 1..Len(text) |-> IF text[k] = "P" THEN "p" ELSE text[k]]

TrueTexts == {<<"t","r","u","e">>, <<"1">>, <<"y","e","s">>}

\* parse_bool(value), default False
ParseBool(value) ==
    CASE value.kind = "bool" -> value.bool
      [] value.kind = "str" -> Lower(value.str) \in TrueTexts
      [] value.kind = "int" -> value.int # 0
      [] OTHER -> FALSE

\* The texts load_configuration takes for a timestamp mode.
FullTexts == {<<"f","u","l","l">>, <<"t","r","u","e">>, <<"1">>, <<"y","e","s">>}

DateText == <<"d","a","t","e">>

NoneTexts == {<<"f","a","l","s","e">>, <<"0">>, <<"n","o">>, <<"n","o","n","e">>}

\* load_configuration, the timestamp mode after a setting of the file or of
\* the environment: membership in the tuples compares with ==, under which
\* 1 equals True and 0 equals False; a setting that is in none of them
\* leaves the mode as it is.
DatetimeMode(setting, current) ==
    CASE setting.kind = "str" /\ setting.str \in FullTexts -> "full"
      [] setting.kind = "bool" /\ setting.bool -> "full"
      [] setting.kind = "int" /\ setting.int = 1 -> "full"
      [] setting.kind = "str" /\ setting.str = DateText -> "date"
      [] setting.kind = "str" /\ setting.str \in NoneTexts -> "none"
      [] setting.kind = "bool" /\ ~setting.bool -> "none"
      [] setting.kind = "int" /\ setting.int = 0 -> "none"
      [] OTHER -> current

\* The line cap taken as it is given.
UnclampedMaxLines(max_lines) == max_lines

\* max(1, min(1000, max_lines))
ClampMaxLines(max_lines) == Max({1, Min({MaxStderrLines, max_lines})})

\* The for loop over config.action_only: "cat in categories" needs a
\* container, and categories[cat] an object once cat is found in it.
CategoriesRaise(categories) ==
    CASE categories.kind = "dict" -> FALSE
      [] categories.kind = "list" ->
            \E cat \in ActionOnlyCategories, i \in 1..Len(categories.items) :
                categories.items[i] = JStr(CategoryChars(cat))
      [] categories.kind = "str" ->
            \E cat \in ActionOnlyCategories : Contains(categories.str, CategoryChars(cat))
      [] OTHER -> TRUE

\* env_filter.split(","), each part stripped, empty parts dropped; the texts
\* of the model hold no blanks.
RECURSIVE SplitCommas(_, _)
SplitCommas(text, part) ==
    IF text = << >> THEN IF part = << >> THEN << >> ELSE <<JStr(part)>>
    ELSE IF Head(text) = ","
    THEN (IF part = << >> THEN << >> ELSE <<JStr(part)>>) \o SplitCommas(Tail(text), << >>)
    ELSE SplitCommas(Tail(text), Append(part, Head(text)))

\* The environment of the model: CLAUDE_HISTORY_VERBOSITY,
\* CLAUDE_HISTORY_FILTER, CLAUDE_HISTORY_ACTION_ONLY_TODO,
\* CLAUDE_HISTORY_DATETIME and CLAUDE_HISTORY_FAILURE_MAX_LINES, None when
\* unset or empty.
NoEnv == [verbosity |-> None, filter |-> None, todo |-> None, datetime |-> None,
          max_lines |-> None]

\* load_configuration, environment overrides
ApplyEnvironment(config, env) ==
    LET v == IntOfText(env.verbosity)
        m == IntOfText(env.max_lines)
    IN  [config EXCEPT
           !.datetime_mode = IF env.datetime # None
                             THEN DatetimeMode(JStr(env.datetime), @) ELSE @,
           !.failure_capture_max_lines = IF env.max_lines # None /\ m.ok
                                         THEN ClampMaxLines(m.int) ELSE @,
           !.verbosity = IF env.verbosity # None /\ v.ok /\ 0 <= v.int /\ v.int <= MaxVerbosity
                         THEN v.int ELSE @,
           !.filter_include = IF env.filter # None THEN SplitCommas(env.filter, << >>)
                              ELSE @,
           !.action_only = IF env.todo # None
                           THEN [@ EXCEPT !["todo"] = ParseBool(JStr(env.todo))]
                           ELSE @]

\* load_configuration, the file part: Config() with the merged files applied.
ApplyFiles(global_file, session_file) ==
    LET merged == MergeTopLevel(LoadConfigFile(global_file), LoadConfigFile(session_file))
        file_config == merged.value
    IN  IF merged.raised \/ file_config.kind # "dict" THEN ConfigRaised
        ELSE
        LET v == IntOf(Get(file_config, "verbosity", JNull))
            filter_config == Get(file_config, "filter", EmptyDict)
            include_list == IF filter_config.kind = "dict"
                            THEN Get(filter_config, "include", JList(<< >>))
                            ELSE JNull
            action_only_config == Get(file_config, "action_only", EmptyDict)
            failure_config == Get(file_config, "failure_capture", EmptyDict)
        IN  IF action_only_config.kind # "dict" THEN ConfigRaised
            ELSE
            LET categories == Get(action_only_config, "categories", EmptyDict)
            IN  IF CategoriesRaise(categories) \/ failure_config.kind # "dict"
                THEN ConfigRaised
                ELSE
                LET max_lines == IntOf(Get(failure_config, "max_stderr_lines",
                                           JInt(DefaultMaxLines)))
                IN  [raised |-> FALSE,
                     verbosity |->
                        IF v.ok /\ 0 <= v.int /\ v.int <= MaxVerbosity
                        THEN v.int ELSE DefaultVerbosity,
                     filter_include |->
                        IF include_list.kind = "list" THEN include_list.items ELSE << >>,
                     action_only |->
                        [cat \in ActionOnlyCategories |->
                            IF categories.kind = "dict" /\ cat \in DOMAIN categories.keys
                            THEN ParseBool(categories.keys[cat])
                            ELSE DefaultActionOnly[cat]],
                     failure_capture_enabled |->
                        ParseBool(Get(failure_config, "enabled", JBool(FALSE))),
                     failure_capture_max_lines |->
                        IF max_lines.ok
                        THEN ClampMaxLines(max_lines.int)
                        ELSE DefaultMaxLines,
                     datetime_mode |->
                        DatetimeMode(Get(file_config, "datetime",
                                         JStr(<<"f","u","l","l">>)), "full")]

\* load_configuration(session_context)
LoadConfiguration(global_file, session_file, env) ==
    LET config == ApplyFiles(global_file, session_file)
    IN  IF config.raised THEN config ELSE ApplyEnvironment(config, env)

\* No call of load_configuration is followed.
NoLoad == [global |-> AbsentFile, session |-> AbsentFile, env |-> NoEnv,
           done |-> FALSE, config |-> DefaultConfig]

\* ------------------------------------------------------------------ state

VARIABLES
    world,        \* the log root: [dirs, files]
    started,      \* session ids whose .started flag file exists
    runCounter,   \* session id -> content of its .run file (0: no file)
    nameCache,    \* session id -> content of its .name-cache file (None: no file)
    stateBlob,    \* session id -> its .json state record (NoState: no file)
    title,        \* session id -> last non-empty customTitle of its transcript
    step,         \* hook invocations so far
    out,          \* what the last hook invocation printed and how it ended
    hist,         \* per invocation: its session, event and name, whether it
                  \* logged the event, whether it logged a task entry, the
                  \* run number of the start marker it wrote (0: none), its
                  \* event time, whether it could read the transcript,
                  \* whether it was a tool event outside the allow-list, and
                  \* the calls that failed during it
    lookup,       \* one call of get_session_name: what it reads and returns
    loaded,       \* one call of load_configuration: its sources and its Config
    race,         \* two overlapping invocations for TheSession: where each
                  \* stands in main and what its local variables hold
    ap,           \* calls of atomic_append on one target file, followed
                  \* step by step: the files and each call's local variables
    ovf,          \* calls of _write_to_overflow for one target file: the
                  \* sizes of its overflow files and what the last call did
    gaplog        \* one log file line by line, the clock, and what the last
                  \* call of check_time_gap on it saw and returned

vars == <<world, started, runCounter, nameCache, stateBlob, title, step, out, hist,
          lookup, loaded, race, ap, ovf, gaplog>>

\* The session ids of the model: one is a substring of the other.
SessionIds == {<<"7">>, <<"1","7">>}

\* The session the one-session specifications follow.
TheSession == <<"7">>

\* The session names of the model: plain ones, one with a character that
\* sanitize_dirname replaces, and one that also occurs inside every file name.
Names == {<<"x">>, <<"y",":">>, <<"l","o","g">>}

User == <<"u">>

ShellType == <<"s","h">>

NoState == [present |-> FALSE, sesslog_dir |-> None, current_name |-> None,
            has_transcript |-> FALSE, cwd |-> None, original_cwd |-> None]

\* The working directory of the invocations whose payload is not varied in it.
HomeCwd == <<"h">>

NoOutput == [acks |-> 0, exit |-> "none", payload |-> "none"]

\* What the injected faults of the model are; each makes every call of its
\* kind fail during one invocation.
FaultKinds == {"dir_mkdir", "dir_rename", "file_rename", "state_write",
               "mkstemp", "read", "write", "move_denied", "move_partial",
               "move_unlink", "overflow_write"}

\* What standard input can hold: a JSON object, text that is not JSON
\* (json.JSONDecodeError), bytes that are not UTF-8 (UnicodeDecodeError), and
\* JSON that is not an object (json_input.keys() raises AttributeError).
PayloadKinds == {"object", "malformed", "undecodable", "nonobject"}

EventKinds == {"PostToolUse", "SessionStart"}

\* No call of get_session_name is followed.
NoLookup == [has_path |-> FALSE, records |-> << >>, entries |-> << >>,
             cached |-> None, done |-> FALSE, result |-> None]

\* No overlapping invocations are followed.
NoRace == << >>

\* No call of atomic_append is followed step by step.
NoAppend == << >>

\* No call of _write_to_overflow is followed.
NoOverflow == << >>

\* No log file is followed line by line.
NoGapLog == << >>

Init ==
    /\ world = EmptyWorld
    /\ started = {}
    /\ runCounter = [s \in SessionIds |-> 0]
    /\ nameCache = [s \in SessionIds |-> None]
    /\ stateBlob = [s \in SessionIds |-> NoState]
    /\ title = [s \in SessionIds |-> None]
    /\ step = 0
    /\ out = NoOutput
    /\ hist = << >>
    /\ lookup = NoLookup
    /\ loaded = NoLoad
    /\ race = NoRace
    /\ ap = NoAppend
    /\ ovf = NoOverflow
    /\ gaplog = NoGapLog

\* ------------------------------------------------------------ the hook

\* get_session_name, method 1: the customTitle of the last custom-title
\* record of the transcript that has a non-empty one.  records holds the
\* customTitle of each custom-title record, None for an empty one.
RECURSIVE LastCustomTitle(_, _)
LastCustomTitle(records, session_name) ==
    IF records = << >> THEN session_name
    ELSE LastCustomTitle(Tail(records),
                         IF Head(records) # None THEN Head(records) ELSE session_name)

\* get_session_name, method 2: the customTitle of the first entry of
\* sessions-index.json whose sessionId equals the session id.
RECURSIVE IndexTitle(_, _)
IndexTitle(entries, session_id) ==
    IF entries = << >> THEN None
    ELSE IF Head(entries).sessionId = session_id THEN Head(entries).customTitle
    ELSE IndexTitle(Tail(entries), session_id)

\* get_session_name that trusts the cache before the transcript.
GetSessionNameCacheFirst(has_path, records, entries, session_id, cached) ==
    IF cached # None THEN cached
    ELSE LET from_transcript == IF has_path THEN LastCustomTitle(records, None) ELSE None
         IN  IF from_transcript # None \/ ~has_path THEN from_transcript
             ELSE IndexTitle(entries, session_id)

\* get_session_name(session_id, transcript_path).  has_path: the payload gives
\* a transcript path; records: the custom-title records of the transcript
\* (none when the file is absent); entries: the entries of the
\* sessions-index.json next to it; cached: the content of the name cache.
GetSessionNameFrom(has_path, records, entries, session_id, cached) ==
    LET from_transcript == IF has_path THEN LastCustomTitle(records, None) ELSE None
        from_index == IF has_path /\ from_transcript = None
                      THEN IndexTitle(entries, session_id)
                      ELSE from_transcript
    IN  IF from_index # None THEN from_index ELSE cached

\* get_session_name that returns the cached name while there is one.
GetSessionNameCached(transcript_title, cached) ==
    IF cached # None THEN cached ELSE transcript_title

\* get_session_name for a transcript whose last non-empty title is
\* transcript_title (None: no such record or no readable transcript), with
\* no entry for the session in the session index.
GetSessionName(transcript_title, cached) ==
    GetSessionNameFrom(TRUE, <<transcript_title>>, << >>, TheSession, cached)

\* The name cache after get_session_name returned name.
CacheAfter(cached, name) == IF name # None THEN name ELSE cached

\* Auto-naming that does not ask which event it is.
ApplyAutoNameOnEveryEvent(event, existing_name, auto_name, cached) ==
    IF existing_name = None /\ auto_name # None THEN auto_name ELSE cached

\* apply_auto_name_on_session_start: the name cache it leaves, where
\* existing_name is what get_session_name returned to it (which also put the
\* name it found in the cache) and auto_name is what
\* derive_session_name_from_cwd yields.
ApplyAutoNameOnSessionStart(event, existing_name, auto_name, cached) ==
    IF event # "SessionStart" THEN cached
    ELSE IF existing_name # None THEN CacheAfter(cached, existing_name)
    ELSE IF auto_name # None THEN auto_name
    ELSE cached

\* should_log_tool that lets every tool through.
ShouldLogToolAlways(category, filter_include) == TRUE

\* should_log_tool, on the category categorize_tool gives the tool.
ShouldLogTool(category, filter_include) ==
    \/ filter_include = << >>
    \/ \E i \in 1..Len(filter_include) : filter_include[i] = category

\* categorize_tool for the tools of the model: a task tool and Bash.
CategoryOf(is_task) == IF is_task THEN "task" ELSE "bash"

\* config.filter_include in the model: empty, or an allow-list that names
\* neither category of the model.
FilterInclude(filtered) == IF filtered THEN <<"system">> ELSE << >>

\* Every event taken for a tool event.
IsToolHookAlways(event) == TRUE

\* main: is_tool_hook
IsToolHook(event) == event \in {"PostToolUse", "PreToolUse", "PostToolUseFailure"}

\* write_session_state that takes original_cwd from the payload each time.
WriteSessionStateAfresh(old, cwd, sesslog_dir, current_name, has_transcript, faults) ==
    IF "state_write" \in faults THEN old
    ELSE [present |-> TRUE, sesslog_dir |-> sesslog_dir,
          current_name |-> current_name, has_transcript |-> has_transcript,
          cwd |-> cwd, original_cwd |-> cwd]

\* write_session_state for a payload whose cwd is cwd ("" when it has none):
\* the record it leaves.  original_cwd is taken from the record found, which
\* this function alone writes, whole, through a temporary file.
WriteSessionStateIn(old, cwd, sesslog_dir, current_name, has_transcript, faults) ==
    LET original_cwd == IF old.present THEN old.original_cwd ELSE cwd
    IN  IF "state_write" \in faults THEN old
        ELSE [present |-> TRUE, sesslog_dir |-> sesslog_dir,
              current_name |-> current_name, has_transcript |-> has_transcript,
              cwd |-> cwd, original_cwd |-> original_cwd]

\* write_session_state: the record it leaves.
WriteSessionState(old, sesslog_dir, current_name, has_transcript, faults) ==
    WriteSessionStateIn(old, HomeCwd, sesslog_dir, current_name, has_transcript, faults)

(* main(): the outcomes of one invocation, as
     [w, started, counter, cache, blob, acks, exit, name, logged]
   for session s; name is the session name the invocation worked with and
   logged tells whether it reached the end of log_entry.  Inputs: the payload kind, the event kind (SessionStart
   stands for every event that is not a tool event; the others differ from it
   only in never auto-naming), the last title of the transcript the payload
   names (None without a readable transcript), the name derive_session_name_from_cwd
   yields, whether the tool is a task tool, whether should_log_tool rejects
   it, and the faults.                                                       *)
MainOutcomes(w, was_started, counter, cached, blob, transcript_title, has_transcript, s, payload, event, auto_name, is_task, filtered, now, faults) ==
    LET Result(w1, st, ct, ca, bl, acks, exit, name, logged, run) ==
            [w |-> w1, started |-> st, counter |-> ct, cache |-> ca, blob |-> bl,
             acks |-> acks, exit |-> exit, name |-> name, logged |-> logged,
             run |-> run]
    IN  IF payload = "malformed"
        THEN {Result(w, was_started, counter, cached, blob, 1, "ok", None, FALSE, 0)}
        ELSE IF payload \in {"undecodable", "nonobject"}
        THEN {Result(w, was_started, counter, cached, blob, 0, "error", None, FALSE, 0)}
        ELSE
        LET \* apply_auto_name_on_session_start
            existing_name == GetSessionName(transcript_title, cached)
            cache1 == ApplyAutoNameOnSessionStart(event, existing_name, auto_name,
                                                  cached)
            \* build_session_context
            session_name == GetSessionName(transcript_title, cache1)
            cache2 == CacheAfter(cache1, session_name)
        IN  UNION {
              IF rd.raised
              THEN {Result(rd.w, was_started, counter, cache2, blob, 0, "error",
                           session_name, FALSE, 0)}
              ELSE LET blob1 == WriteSessionState(blob, rd.dir, session_name,
                                                  has_transcript, faults)
                   IN  IF \/ ~IsToolHook(event)
                          \/ ~ShouldLogTool(CategoryOf(is_task), FilterInclude(filtered))
                       THEN {Result(rd.w, was_started, counter, cache2, blob1, 1, "ok",
                                    session_name, FALSE, 0)}
                       ELSE {Result(l.w, l.started, l.counter, cache2, blob1,
                                    IF l.raised THEN 0 ELSE 1,
                                    IF l.raised THEN "error" ELSE "ok",
                                    l.name, ~l.raised, l.run)
                               : l \in LogWithSessionLogger(rd.w, was_started, counter, s,
                                                            session_name, ShellType, User,
                                                            is_task, now, faults)}
              : rd \in ReconcileSessionDirectory(w, s, session_name, User, faults)}

\* event_time of the last invocation (main: event_time = datetime.now()).
Clock == IF hist = << >> THEN 0 ELSE hist[Len(hist)].time

\* One hook invocation for session s, elapsed ticks after the one before.
\* has_transcript: the payload names a transcript file that can be read.
HookAt(s, payload, event, has_transcript, auto_name, is_task, filtered, faults, elapsed) ==
    /\ step < MaxSteps
    /\ \E o \in MainOutcomes(world, s \in started, runCounter[s], nameCache[s],
                             stateBlob[s], IF has_transcript THEN title[s] ELSE None,
                             has_transcript, s, payload, event, auto_name, is_task, filtered,
                             Clock + elapsed, faults) :
          /\ world' = o.w
          /\ started' = IF o.started THEN started \cup {s} ELSE started \ {s}
          /\ runCounter' = [runCounter EXCEPT ![s] = o.counter]
          /\ nameCache' = [nameCache EXCEPT ![s] = o.cache]
          /\ stateBlob' = [stateBlob EXCEPT ![s] = o.blob]
          /\ out' = [acks |-> o.acks, exit |-> o.exit, payload |-> payload]
          /\ hist' = Append(hist, [session |-> s, event |-> event, name |-> o.name,
                                   logged |-> o.logged, task |-> o.logged /\ is_task,
                                   run |-> o.run, time |-> Clock + elapsed,
                                   transcript |-> has_transcript,
                                   filtered |-> event = "PostToolUse" /\ filtered,
                                   faults |-> faults])
    /\ step' = step + 1
    /\ UNCHANGED <<title, lookup, loaded, race, ap, ovf, gaplog>>

\* An invocation one tick after the one before.
Hook(s, payload, event, has_transcript, auto_name, is_task, filtered, faults) ==
    HookAt(s, payload, event, has_transcript, auto_name, is_task, filtered, faults, 1)

\* ------------------------------------------------------- the environment

\* The host appends a custom-title record to the transcript of session s.
HostRename(s, n) ==
    /\ title[s] # n
    /\ title' = [title EXCEPT ![s] = n]
    /\ UNCHANGED <<world, started, runCounter, nameCache, stateBlob, step, out, hist, lookup, loaded, race, ap, ovf, gaplog>>

\* sanitize_session_name of rename_session.py, on the characters of the model:
\* ":" and "/" become "-", other unsafe characters are dropped, a run of
\* separators collapses to "_", separators at the ends are trimmed.
RECURSIVE CollapseSeparators(_)
CollapseSeparators(n) ==
    IF Len(n) < 2 THEN n
    ELSE IF n[1] \in {"-", "_"} /\ n[2] \in {"-", "_"}
    THEN LET rest == CollapseSeparators(Tail(n))
         IN  <<"_">> \o Tail(rest)
    ELSE <<n[1]>> \o CollapseSeparators(Tail(n))

RECURSIVE StripSeparators(_)
StripSeparators(n) ==
    IF n = << >> THEN n
    ELSE IF n[1] \in {"-", "_"} THEN StripSeparators(Tail(n))
    ELSE IF n[Len(n)] \in {"-", "_"} THEN StripSeparators(SubSeq(n, 1, Len(n) - 1))
    ELSE n

SanitizeSessionName(name) ==
    LET dashed == [k \in 1..Len(name) |-> IF name[k] \in {":", "/"} THEN "-" ELSE name[k]]
        kept == SelectSeq(dashed, LAMBDA c : c \in LowerChars \cup DigitChars \cup {"-", "_"})
    IN  StripSeparators(CollapseSeparators(kept))

\* rename_session.py main(): needs the state record of the session; appends the
\* title when the recorded transcript can be written; always clears the cache.
RenameSession(s, raw_name) ==
    /\ stateBlob[s].present
    /\ LET new_name == SanitizeSessionName(raw_name)
       IN  title' = [title EXCEPT ![s] =
                        IF stateBlob[s].has_transcript /\ new_name # None
                        THEN new_name ELSE @]
    /\ nameCache' = [nameCache EXCEPT ![s] = None]
    /\ UNCHANGED <<world, started, runCounter, stateBlob, step, out, hist, lookup, loaded, race, ap, ovf, gaplog>>

\* ------------------------------------------------------- specifications

\* The names derive_session_name_from_cwd yields in the model.
AutoNames == {None, <<"x">>}

\* A tool event (PostToolUse) that is logged.
ToolEvent(s, has_transcript, is_task) ==
    \E auto_name \in AutoNames :
        Hook(s, "object", "PostToolUse", has_transcript, auto_name, is_task, FALSE, {})

\* A tool event that should_log_tool rejects.
FilteredEvent(s, has_transcript) ==
    \E auto_name \in AutoNames :
        Hook(s, "object", "PostToolUse", has_transcript, auto_name, FALSE, TRUE, {})

\* An event that is not a tool event.
SessionStart(s, has_transcript, auto_name) ==
    Hook(s, "object", "SessionStart", has_transcript, auto_name, FALSE, FALSE, {})

Next ==
    \/ \E has_transcript \in BOOLEAN, is_task \in BOOLEAN :
            ToolEvent(TheSession, has_transcript, is_task)
    \/ \E has_transcript \in BOOLEAN : FilteredEvent(TheSession, has_transcript)
    \/ \E has_transcript \in BOOLEAN, auto_name \in AutoNames :
            SessionStart(TheSession, has_transcript, auto_name)
    \/ \E n \in Names : HostRename(TheSession, n)
    \/ \E n \in Names : RenameSession(TheSession, n)

Spec == Init /\ [][Next]_vars

\* The fault sets of one invocation.
FaultSets == {F \in SUBSET FaultKinds : Cardinality(F) <= MaxFaults}

\* An invocation whose standard input holds no JSON object.
BadPayload(s, payload) ==
    Hook(s, payload, "PostToolUse", FALSE, None, FALSE, FALSE, {})

\* A logged tool event during which the calls of the given kinds fail.
FaultyEvent(s, faults) ==
    Hook(s, "object", "PostToolUse", TRUE, None, FALSE, FALSE, faults)

\* One session under bad payloads and failing system calls.
NextFaults ==
    \/ \E payload \in PayloadKinds \ {"object"} : BadPayload(TheSession, payload)
    \/ \E faults \in FaultSets : FaultyEvent(TheSession, faults)
    \/ HostRename(TheSession, <<"x">>)

SpecFaults == Init /\ [][NextFaults]_vars

\* Two sessions, the id of one a substring of the id of the other.
NextTwo ==
    \/ \E s \in SessionIds, is_task \in BOOLEAN : ToolEvent(s, TRUE, is_task)
    \/ \E s \in SessionIds, n \in {<<"x">>, <<"l","o","g">>} : HostRename(s, n)

SpecTwo == Init /\ [][NextTwo]_vars

\* A run of session s ends: its .started flag is gone, its .run file stays.
\* is_new_session_run tests nothing but the flag, and no code of the program
\* removes either file.
EndRun(s) ==
    /\ s \in started
    /\ started' = started \ {s}
    /\ UNCHANGED <<world, runCounter, nameCache, stateBlob, title, step, out, hist, lookup, loaded, race, ap, ovf, gaplog>>

\* The persisted run state of session s is deleted: flag and counter.
LoseRunState(s) ==
    /\ s \in started \/ runCounter[s] # 0
    /\ started' = started \ {s}
    /\ runCounter' = [runCounter EXCEPT ![s] = 0]
    /\ UNCHANGED <<world, nameCache, stateBlob, title, step, out, hist, lookup, loaded, race, ap, ovf, gaplog>>

\* One session over several runs, renamed by the host in between.
NextRuns ==
    \/ ToolEvent(TheSession, TRUE, FALSE)
    \/ \E n \in Names : HostRename(TheSession, n)
    \/ EndRun(TheSession)
    \/ LoseRunState(TheSession)

SpecRuns == Init /\ [][NextRuns]_vars

\* The ticks between two invocations: one tick, and either side of the gap
\* threshold.
Elapsed == {1, 1799 * TicksPerSecond, 1799 * TicksPerSecond + 1,
            1800 * TicksPerSecond, 1801 * TicksPerSecond}

\* One session logging tool events at chosen times, over runs and a rename.
NextGap ==
    \/ \E is_task \in BOOLEAN, elapsed \in Elapsed :
            HookAt(TheSession, "object", "PostToolUse", TRUE, None, is_task, FALSE,
                   {}, elapsed)
    \/ HostRename(TheSession, <<"x">>)
    \/ EndRun(TheSession)

SpecGap == Init /\ [][NextGap]_vars

\* What one call of get_session_name can find: up to MaxRecords custom-title
\* records, an index with at most one entry per session id, a cache.
MaxRecords == 2

Titles == {None, <<"x">>, <<"y",":">>}

Transcripts == UNION {[1..n -> Titles] : n \in 0..MaxRecords}

IndexEntries == {<< >>} \cup
    {<<[sessionId |-> TheSession, customTitle |-> t]>> : t \in Titles} \cup
    {<<[sessionId |-> <<"1","7">>, customTitle |-> <<"z">>],
       [sessionId |-> TheSession, customTitle |-> t]>> : t \in Titles} \cup
    {<<[sessionId |-> <<"1","7">>, customTitle |-> <<"z">>]>>}

Caches == {None, <<"x">>, <<"c">>}

InitNames ==
    /\ world = EmptyWorld
    /\ started = {}
    /\ runCounter = [s \in SessionIds |-> 0]
    /\ nameCache = [s \in SessionIds |-> None]
    /\ stateBlob = [s \in SessionIds |-> NoState]
    /\ title = [s \in SessionIds |-> None]
    /\ step = 0
    /\ out = NoOutput
    /\ hist = << >>
    /\ lookup \in [has_path : BOOLEAN, records : Transcripts, entries : IndexEntries,
                    cached : Caches, done : {FALSE}, result : {None}]
    /\ loaded = NoLoad
    /\ race = NoRace
    /\ ap = NoAppend
    /\ ovf = NoOverflow
    /\ gaplog = NoGapLog

\* get_session_name is called for TheSession on what lookup holds.
Lookup ==
    /\ ~lookup.done
    /\ lookup' = [lookup EXCEPT
                    !.done = TRUE,
                    !.result = GetSessionNameFrom(lookup.has_path, lookup.records,
                                                  lookup.entries, TheSession,
                                                  lookup.cached)]
    /\ UNCHANGED <<world, started, runCounter, nameCache, stateBlob, title, step, out,
                   hist, loaded, race, ap, ovf, gaplog>>

NextNames == Lookup

SpecNames == InitNames /\ [][NextNames]_vars

\* A section of a config file: left out (<< >>) or key with one of the values.
Section(key, values) == {<< >>} \cup {key :> v : v \in values}

BASH == <<"b","a","s","h">>

\* The well-formed config files: absent, or an object of well-formed sections.
WellFormedFiles ==
    {AbsentFile} \cup
    {JsonFile(JDict(v @@ f @@ a @@ c)) :
        v \in Section("verbosity", {JInt(1), JInt(3)}),
        f \in Section("filter", {JDict("include" :> JList(<<JStr(BASH)>>)),
                                 JDict("include" :> JList(<< >>))}),
        a \in Section("action_only",
                      {JDict("categories" :> JDict("todo" :> JBool(FALSE))),
                       JDict("categories" :> JDict("bash" :> JBool(TRUE)))}),
        c \in Section("failure_capture",
                      {JDict("enabled" :> JBool(TRUE)),
                       JDict("max_stderr_lines" :> JInt(10))})}

\* Config files with one thing wrong: not JSON, a top level that is no
\* object, a section of the wrong type, a value out of range.
BrokenFiles ==
    {UnparseableFile, JsonFile(JList(<< >>)), JsonFile(JNull), JsonFile(JStr(BASH))} \cup
    {JsonFile(JDict(s)) : s \in
        Section("verbosity", {JInt(9), JNull, JList(<< >>)}) \cup
        Section("filter", {JStr(BASH), JDict("include" :> JStr(BASH))}) \cup
        Section("action_only",
                {JList(<< >>), JNull, JDict("categories" :> JInt(1)),
                 JDict("categories" :> JStr(<<"t","o","d","o","s">>))}) \cup
        Section("failure_capture",
                {JStr(BASH), JDict("max_stderr_lines" :> JInt(5000)),
                 JDict("max_stderr_lines" :> JNull)})}

ConfigFiles == WellFormedFiles \cup BrokenFiles

\* The environments of the model: each variable unset or set.
Environments ==
    [verbosity : {None, <<"0">>, <<"7">>},
     filter : {None, <<"t","a","s","k">>},
     todo : {None, <<"f","a","l","s","e">>},
     datetime : {None},
     max_lines : {None}]

InitConfig ==
    /\ world = EmptyWorld
    /\ started = {}
    /\ runCounter = [s \in SessionIds |-> 0]
    /\ nameCache = [s \in SessionIds |-> None]
    /\ stateBlob = [s \in SessionIds |-> NoState]
    /\ title = [s \in SessionIds |-> None]
    /\ step = 0
    /\ out = NoOutput
    /\ hist = << >>
    /\ lookup = NoLookup
    /\ loaded \in [global : ConfigFiles, session : ConfigFiles, env : Environments,
                   done : {FALSE}, config : {DefaultConfig}]
    /\ race = NoRace
    /\ ap = NoAppend
    /\ ovf = NoOverflow
    /\ gaplog = NoGapLog

\* load_configuration is called on what loaded holds.
Load ==
    /\ ~loaded.done
    /\ loaded' = [loaded EXCEPT
                    !.done = TRUE,
                    !.config = LoadConfiguration(loaded.global, loaded.session,
                                                 loaded.env)]
    /\ UNCHANGED <<world, started, runCounter, nameCache, stateBlob, title, step, out,
                   hist, lookup, race, ap, ovf, gaplog>>

NextConfig == Load

SpecConfig == InitConfig /\ [][NextConfig]_vars

\* ------------------------------------------- a rename attempt, in full

\* update_sessions_index: the entries written back, with the customTitle of
\* the first entry of the session replaced; unchanged when it has no entry.
RECURSIVE UpdateSessionsIndex(_, _, _)
UpdateSessionsIndex(entries, session_id, new_name) ==
    IF entries = << >> THEN << >>
    ELSE IF Head(entries).sessionId = session_id
    THEN <<[Head(entries) EXCEPT !.customTitle = new_name]>> \o Tail(entries)
    ELSE <<Head(entries)>> \o UpdateSessionsIndex(Tail(entries), session_id, new_name)

\* update_transcript: whether it appends the custom-title record.
UpdateTranscriptOk(there, writable) == there /\ writable

\* clear_session_caches as main calls it: whatever the updates returned.
ClearSessionCaches(cached, transcript_ok) == None

(* One session whose hook payloads name a transcript next to a
   sessions-index.json: the transcript may be absent, and the index may hold
   no entry for the session.  lookup holds the files, the phase ("before",
   "rename", "after", "done"), the name the resolver returned before the
   attempt, the exit status of rename_session and the name the resolver
   returns afterwards.                                                      *)
InitRename ==
    /\ world = EmptyWorld
    /\ started = {}
    /\ runCounter = [s \in SessionIds |-> 0]
    /\ nameCache = [s \in SessionIds |-> None]
    /\ stateBlob = [s \in SessionIds |-> NoState]
    /\ title = [s \in SessionIds |-> None]
    /\ step = 0
    /\ out = NoOutput
    /\ hist = << >>
    /\ \E there \in BOOLEAN, records \in Transcripts, entries \in IndexEntries,
          cached \in Caches :
          /\ ~there => records = << >>
          /\ lookup = [there |-> there, records |-> records, entries |-> entries,
                       cached |-> cached, phase |-> "before", before |-> None,
                       exit |-> 0, new_name |-> None, result |-> None]
    /\ loaded = NoLoad
    /\ race = NoRace
    /\ ap = NoAppend
    /\ ovf = NoOverflow
    /\ gaplog = NoGapLog

RenameFrame ==
    UNCHANGED <<world, started, runCounter, nameCache, stateBlob, title, step, out,
                hist, loaded, race, ap, ovf, gaplog>>

\* A hook invocation resolves the name; get_session_name puts the name it
\* found in the cache.
LookupBefore ==
    /\ lookup.phase = "before"
    /\ LET name == GetSessionNameFrom(TRUE, lookup.records, lookup.entries,
                                      TheSession, lookup.cached)
       IN  lookup' = [lookup EXCEPT !.phase = "rename", !.before = name,
                                    !.cached = CacheAfter(@, name)]
    /\ RenameFrame

\* rename_session.py main() from the update of the index on; writable tells
\* whether the transcript can be opened for appending.
RenameAttempt(raw_name, writable) ==
    /\ lookup.phase = "rename"
    /\ LET new_name == SanitizeSessionName(raw_name)
           transcript_ok == UpdateTranscriptOk(lookup.there, writable)
       IN  lookup' = [lookup EXCEPT
                        !.phase = "after",
                        !.new_name = new_name,
                        !.entries = UpdateSessionsIndex(@, TheSession, new_name),
                        !.records = IF transcript_ok THEN Append(@, new_name) ELSE @,
                        !.cached = ClearSessionCaches(@, transcript_ok),
                        !.exit = IF transcript_ok THEN 0 ELSE 1]
    /\ RenameFrame

\* The next hook invocation resolves the name.
LookupAfter ==
    /\ lookup.phase = "after"
    /\ lookup' = [lookup EXCEPT
                    !.phase = "done",
                    !.result = GetSessionNameFrom(TRUE, lookup.records, lookup.entries,
                                                  TheSession, lookup.cached)]
    /\ RenameFrame

NextRename ==
    \/ LookupBefore
    \/ \E raw_name \in Names, writable \in BOOLEAN : RenameAttempt(raw_name, writable)
    \/ LookupAfter

SpecRename == InitRename /\ [][NextRename]_vars

\* ------------------------------------------------- the state record

MaxStateWrites == 3

\* The working directories of the payloads: two paths and none ("").
Cwds == {<<"p">>, <<"q">>, << >>}

\* Calls of write_session_state start with no record for either session.
InitState ==
    /\ world = EmptyWorld
    /\ started = {}
    /\ runCounter = [s \in SessionIds |-> 0]
    /\ nameCache = [s \in SessionIds |-> None]
    /\ stateBlob = [s \in SessionIds |-> NoState]
    /\ title = [s \in SessionIds |-> None]
    /\ step = 0
    /\ out = NoOutput
    /\ hist = << >>
    /\ lookup = NoLookup
    /\ loaded = NoLoad
    /\ race = NoRace
    /\ ap = NoAppend
    /\ ovf = NoOverflow
    /\ gaplog = NoGapLog

\* An invocation for session s in working directory cwd reaches
\* write_session_state; faults tells whether the write of the record fails.
StateWrite(s, cwd, name, faults) ==
    /\ step < MaxStateWrites
    /\ stateBlob' = [stateBlob EXCEPT
                       ![s] = WriteSessionStateIn(@, cwd,
                                                  BuildSessionDirectory(name, s, User),
                                                  name, TRUE, faults)]
    /\ hist' = Append(hist, [session |-> s, cwd |-> cwd,
                             wrote |-> "state_write" \notin faults])
    /\ step' = step + 1
    /\ UNCHANGED <<world, started, runCounter, nameCache, title, out, lookup, loaded,
                   race, ap, ovf, gaplog>>

NextState ==
    \E s \in SessionIds, cwd \in Cwds, name \in {None, <<"x">>},
       faults \in {{}, {"state_write"}} : StateWrite(s, cwd, name, faults)

SpecState == InitState /\ [][NextState]_vars

\* ------------------------------------------ configuration: value ranges

\* A text load_configuration knows nothing of.
BOGUS == <<"b","o","g","u","s">>

\* Global config files for the ranges: absent, or one with values at the
\* upper ends.
GlobalRangeFiles ==
    {AbsentFile,
     JsonFile(JDict("verbosity" :> JInt(MaxVerbosity) @@ "datetime" :> JStr(DateText)
                    @@ "failure_capture" :>
                           JDict("max_stderr_lines" :> JInt(MaxStderrLines))))}

\* Session config files for the ranges: values at, beyond and below the
\* limits, and values of other types.
SessionRangeFiles ==
    {AbsentFile} \cup
    {JsonFile(JDict(v @@ d @@ c)) :
        v \in Section("verbosity", {JInt(0), JInt(MaxVerbosity + 1), JInt(0 - 1),
                                    JStr(<<"3">>), JBool(TRUE)}),
        d \in Section("datetime", {JStr(<<"n","o","n","e">>), JStr(BOGUS), JBool(FALSE),
                                   JInt(0), JInt(2), JNull}),
        c \in Section("failure_capture",
                      {JDict("max_stderr_lines" :> n) :
                          n \in {JInt(0), JInt(1), JInt(MaxStderrLines + 1),
                                 JInt(0 - 3), JStr(<<"7">>), JNull}})}

\* Environments for the ranges.
RangeEnvironments ==
    [verbosity : {None, <<"4">>, <<"5">>, <<"-","1">>},
     filter : {None},
     todo : {None},
     datetime : {None, DateText, <<"0">>, BOGUS},
     max_lines : {None, <<"0">>, <<"1","0","0","1">>, <<"-","5">>, BOGUS}]

InitRange ==
    /\ world = EmptyWorld
    /\ started = {}
    /\ runCounter = [s \in SessionIds |-> 0]
    /\ nameCache = [s \in SessionIds |-> None]
    /\ stateBlob = [s \in SessionIds |-> NoState]
    /\ title = [s \in SessionIds |-> None]
    /\ step = 0
    /\ out = NoOutput
    /\ hist = << >>
    /\ lookup = NoLookup
    /\ loaded \in [global : GlobalRangeFiles, session : SessionRangeFiles,
                   env : RangeEnvironments, done : {FALSE}, config : {DefaultConfig}]
    /\ race = NoRace
    /\ ap = NoAppend
    /\ ovf = NoOverflow
    /\ gaplog = NoGapLog

NextRange == Load

SpecRange == InitRange /\ [][NextRange]_vars

\* ------------------------------------------- two overlapping invocations

\* The two invocations of the hook that run at the same time for TheSession.
Processes == {"a", "b"}

\* event_time of each of them (main: event_time = datetime.now()); the one
\* invocation that may have run before them had event time 1.
EventTime(p) == IF p = "a" THEN 2 ELSE 3

\* What one earlier invocation for TheSession leaves behind when the
\* transcript held prior_title.
PriorOutcomes(prior_title) ==
    MainOutcomes(EmptyWorld, FALSE, 0, None, NoState, prior_title, TRUE, TheSession,
                 "object", "PostToolUse", None, FALSE, FALSE, 1, {})

\* An invocation that has not read its session name yet.
StartOfMain == [pc |-> "start", call |-> 1, name |-> None, existing |-> None,
                main_dir |-> None, dir |-> None, new_run |-> FALSE]

InitRace ==
    /\ \E target \in Names :
          title = [s \in SessionIds |-> IF s = TheSession THEN target ELSE None]
    /\ \/ /\ world = EmptyWorld
          /\ started = {}
          /\ runCounter = [s \in SessionIds |-> 0]
          /\ nameCache = [s \in SessionIds |-> None]
          /\ stateBlob = [s \in SessionIds |-> NoState]
       \/ \E prior \in {None} \cup Names : \E o \in PriorOutcomes(prior) :
          /\ world = o.w
          /\ started = IF o.started THEN {TheSession} ELSE {}
          /\ runCounter = [s \in SessionIds |-> IF s = TheSession THEN o.counter ELSE 0]
          /\ nameCache = [s \in SessionIds |-> IF s = TheSession THEN o.cache ELSE None]
          /\ stateBlob = [s \in SessionIds |-> IF s = TheSession THEN o.blob ELSE NoState]
    /\ step = 0
    /\ out = NoOutput
    /\ hist = << >>
    /\ lookup = NoLookup
    /\ loaded = NoLoad
    /\ race = [p \in Processes |-> StartOfMain]
    /\ ap = NoAppend
    /\ ovf = NoOverflow
    /\ gaplog = NoGapLog

\* The directory reconcile_session_directory of invocation p works toward.
ExpectedDir(p) == BuildSessionDirectory(race[p].name, TheSession, User)

\* build_session_context: p reads the session name and caches it.
RaceStart(p) ==
    /\ race[p].pc = "start"
    /\ LET session_name == GetSessionName(title[TheSession], nameCache[TheSession])
       IN  /\ race' = [race EXCEPT ![p] = [@ EXCEPT !.pc = "check",
                                                    !.name = session_name]]
           /\ nameCache' = [nameCache EXCEPT
                              ![TheSession] = CacheAfter(@, session_name)]
    /\ UNCHANGED <<world, started, runCounter, stateBlob, title, step, out, hist,
                   lookup, loaded, ap, ovf, gaplog>>

\* ReturnDir with a SessionLogger that works in the directory main obtained
\* instead of reconciling the directory once more.
ReturnDirToLogger(p, d) ==
    /\ race' = [race EXCEPT ![p] = [@ EXCEPT !.pc = "log", !.main_dir = d, !.dir = d]]
    /\ stateBlob' = [stateBlob EXCEPT
                       ![TheSession] = WriteSessionState(@, d, race[p].name, TRUE, {})]

(* reconcile_session_directory returns d to p.  The call in main is followed
   by write_session_state and then by SessionLogger.__init__, which calls
   reconcile_session_directory again; the directory that second call returns
   is the one the logger writes into.  ensure_transcript_symlink, which
   main calls in between, hands the path to create_symlink of the package
   dazzle_filekit; that call is taken to create no directory.              *)
ReturnDir(p, d) ==
    IF race[p].call = 1
    THEN /\ race' = [race EXCEPT ![p] = [@ EXCEPT !.pc = "check", !.call = 2,
                                                  !.existing = None, !.main_dir = d]]
         /\ stateBlob' = [stateBlob EXCEPT
                            ![TheSession] = WriteSessionState(@, d, race[p].name,
                                                              TRUE, {})]
    ELSE /\ race' = [race EXCEPT ![p] = [@ EXCEPT !.pc = "log", !.dir = d]]
         /\ UNCHANGED stateBlob

\* if expected_dir.exists(): return expected_dir, None
RaceCheck(p) ==
    /\ race[p].pc = "check"
    /\ IF ExpectedDir(p) \in world.dirs
       THEN ReturnDir(p, ExpectedDir(p))
       ELSE /\ race' = [race EXCEPT ![p] = [@ EXCEPT !.pc = "find"]]
            /\ UNCHANGED stateBlob
    /\ UNCHANGED <<world, started, runCounter, nameCache, title, step, out, hist,
                   lookup, loaded, ap, ovf, gaplog>>

\* existing_dir = find_directory_by_guid(sesslog_base, session_id)
RaceFind(p) ==
    /\ race[p].pc = "find"
    /\ LET found == FindDirectoryByGuid(world, TheSession)
       IN  IF found = {}
           THEN race' = [race EXCEPT ![p] = [@ EXCEPT !.pc = "mkdir"]]
           ELSE \E d \in found :
                   race' = [race EXCEPT ![p] = [@ EXCEPT !.pc = "rename",
                                                         !.existing = d]]
    /\ UNCHANGED <<world, started, runCounter, nameCache, stateBlob, title, step, out,
                   hist, lookup, loaded, ap, ovf, gaplog>>

(* existing_dir.rename(expected_dir).  It raises when the source is gone, and
   when the destination is there: always where a rename never replaces, and
   unless the destination is an empty directory where it does.  The handler
   of the exception returns existing_dir.  Renaming a directory to itself
   does nothing.                                                            *)
RaceRename(p) ==
    /\ race[p].pc = "rename"
    /\ LET src == race[p].existing
           dst == ExpectedDir(p)
           Moved(w) == /\ world' = w
                       /\ race' = [race EXCEPT ![p] = [@ EXCEPT !.pc = "files"]]
                       /\ UNCHANGED stateBlob
           Raised == /\ ReturnDir(p, src)
                     /\ UNCHANGED world
       IN  IF src \notin world.dirs THEN Raised
           ELSE IF src = dst THEN Moved(world)
           ELSE IF dst \in world.dirs
           THEN \/ Raised
                \/ /\ NamesIn(world, dst) = {}
                   /\ Moved(RenameDir(world, src, dst))
           ELSE Moved(RenameDir(world, src, dst))
    /\ UNCHANGED <<started, runCounter, nameCache, title, step, out, hist, lookup,
                   loaded, ap, ovf, gaplog>>

\* _rename_files_for_session_change(expected_dir, old_name, expected_name,
\* session_id) after the rename, then return expected_dir, old_name.
RaceFiles(p) ==
    /\ race[p].pc = "files"
    /\ LET old_name == ExtractNameFromDirectory(race[p].existing, TheSession)
       IN  IF race[p].name # None
           THEN world' \in RenameFilesForSessionChange(world, ExpectedDir(p), old_name,
                                                       race[p].name, TheSession, {})
           ELSE UNCHANGED world
    /\ ReturnDir(p, ExpectedDir(p))
    /\ UNCHANGED <<started, runCounter, nameCache, title, step, out, hist, lookup,
                   loaded, ap, ovf, gaplog>>

\* expected_dir.mkdir(parents=True, exist_ok=True)
RaceMkdir(p) ==
    /\ race[p].pc = "mkdir"
    /\ world' = [world EXCEPT !.dirs = @ \cup {ExpectedDir(p)}]
    /\ ReturnDir(p, ExpectedDir(p))
    /\ UNCHANGED <<started, runCounter, nameCache, title, step, out, hist, lookup,
                   loaded, ap, ovf, gaplog>>

\* _maybe_write_session_marker: p asks is_new_session_run, which looks for
\* the flag file; nothing holds the flag between this test and the writes
\* that follow it.
RaceFlag(p) ==
    /\ race[p].pc = "log"
    /\ race' = [race EXCEPT ![p] = [@ EXCEPT !.pc = "write",
                                             !.new_run = TheSession \notin started]]
    /\ UNCHANGED <<world, started, runCounter, nameCache, stateBlob, title, step, out,
                   hist, lookup, loaded, ap, ovf, gaplog>>

\* The rest of SessionLogger.__init__ and log_entry, in the directory the
\* logger obtained, with the answer is_new_session_run gave p.
RaceLog(p) ==
    /\ race[p].pc = "write"
    /\ \E o \in LogIntoDirectory(world, race[p].dir, race[p].name,
                                 ~race[p].new_run, runCounter[TheSession],
                                 TheSession, race[p].name, ShellType, User, FALSE,
                                 EventTime(p), {}) :
          /\ world' = o.w
          /\ started' = IF o.started THEN started \cup {TheSession}
                        ELSE started \ {TheSession}
          /\ runCounter' = [runCounter EXCEPT ![TheSession] = o.counter]
    /\ race' = [race EXCEPT ![p] = [@ EXCEPT !.pc = "done"]]
    /\ UNCHANGED <<nameCache, stateBlob, title, step, out, hist, lookup, loaded, ap, ovf, gaplog>>

NextRace ==
    \/ \E p \in Processes : RaceStart(p)
    \/ \E p \in Processes : RaceCheck(p)
    \/ \E p \in Processes : RaceFind(p)
    \/ \E p \in Processes : RaceRename(p)
    \/ \E p \in Processes : RaceFiles(p)
    \/ \E p \in Processes : RaceMkdir(p)
    \/ \E p \in Processes : RaceFlag(p)
    \/ \E p \in Processes : RaceLog(p)

SpecRace == InitRace /\ [][NextRace]_vars

\* --------------------------------------------- atomic_append, step by step

\* The characters of a log text: NUL stands for "\x00", NL for "\n".
NUL == "0"

NL == "\n"

\* text.replace("\x00", "")
StripNulls(text) == SelectSeq(text, LAMBDA c : c # NUL)

\* A file that does not exist, and a file holding text.
NoFile == [there |-> FALSE, text |-> << >>]

File(text) == [there |-> TRUE, text |-> text]

\* AppendedText that leaves out the text read from the target.
AppendedTextForgetting(existing, content, add_gap) ==
    (IF add_gap THEN <<NL>> ELSE << >>) \o content \o <<NL>>

\* What the with-block of atomic_append writes to the temp file: the text it
\* read, a blank line if add_gap, then content and a newline.
AppendedText(existing, content, add_gap) ==
    existing \o (IF add_gap THEN <<NL>> ELSE << >>) \o content \o <<NL>>

\* The processes that call atomic_append on the target, and how many calls
\* each of them makes.
Writers == {"a", "b"}

MaxAppends == 1

\* The content each writer passes, with and without a null byte in it.
ContentsOf(p) == {<<p>>, <<p, NUL>>}

\* What the target can hold to begin with.
Originals == {NoFile, File(<< >>), File(<<"o", NL>>), File(<<"o", NUL, NL>>)}

\* A writer outside atomic_append.
Idle == [pc |-> "idle", content |-> << >>, add_gap |-> FALSE, buffer |-> << >>,
         temp |-> NoFile, appended |-> 0, raw |-> << >>, before |-> NoFile,
         alone |-> TRUE, failed |-> FALSE]

(* replaces tells whether os.rename replaces an existing destination (POSIX)
   or raises FileExistsError when the destination exists (Windows); original
   and calls record what the target held to begin with and the text of every
   call made so far.  Each writer's record keeps, beside the local variables
   of atomic_append, the content as it was passed (raw), what the target
   held when the call began (before), whether no other call has overlapped
   this one (alone) and whether a step of it has raised (failed).  overflow
   is the file target.overflow.1 and faults counts the steps that failed.  *)
InitAppend ==
    /\ world = EmptyWorld
    /\ started = {}
    /\ runCounter = [s \in SessionIds |-> 0]
    /\ nameCache = [s \in SessionIds |-> None]
    /\ stateBlob = [s \in SessionIds |-> NoState]
    /\ title = [s \in SessionIds |-> None]
    /\ step = 0
    /\ out = NoOutput
    /\ hist = << >>
    /\ lookup = NoLookup
    /\ loaded = NoLoad
    /\ race = NoRace
    /\ ovf = NoOverflow
    /\ gaplog = NoGapLog
    /\ \E replaces \in BOOLEAN, original \in Originals :
          ap = [replaces |-> replaces, original |-> original, target |-> original,
                calls |-> << >>, writers |-> [p \in Writers |-> Idle],
                overflow |-> NoFile, faults |-> 0]

\* The variables atomic_append leaves alone.
AppendFrame ==
    UNCHANGED <<world, started, runCounter, nameCache, stateBlob, title, step, out,
                hist, lookup, loaded, race, ovf, gaplog>>

\* Writer p goes to pc with the fields of its record changed as in r.
Goes(p, r) == [ap EXCEPT !.writers[p] = r]

\* atomic_append(file_path, content, add_gap) is called:
\* content = content.replace("\x00", "")
AppendCall(p, content, add_gap) ==
    /\ ap.writers[p].pc = "idle"
    /\ ap.writers[p].appended < MaxAppends
    /\ ap' = [ap EXCEPT
                !.calls = Append(@, [writer |-> p,
                                     text |-> AppendedText(<< >>, StripNulls(content),
                                                           add_gap)]),
                !.writers = [q \in Writers |->
                    IF q = p
                    THEN [ap.writers[p] EXCEPT
                            !.pc = "mkstemp",
                            !.content = StripNulls(content),
                            !.add_gap = add_gap,
                            !.raw = content,
                            !.failed = FALSE,
                            !.before = ap.target,
                            !.alone = \A o \in Writers \ {p} :
                                          ap.writers[o].pc = "idle"]
                    ELSE [ap.writers[q] EXCEPT
                            !.alone = @ /\ ap.writers[q].pc = "idle"]]]
    /\ AppendFrame

\* tempfile.mkstemp(suffix=".tmp", prefix=file_path.name + ".", dir=parent)
Mkstemp(p) ==
    /\ ap.writers[p].pc = "mkstemp"
    /\ ap' = Goes(p, [ap.writers[p] EXCEPT !.pc = "read", !.temp = File(<< >>)])
    /\ AppendFrame

\* if file_path.exists(): existing = file_path.read_text().replace("\x00", "")
ReadExisting(p) ==
    /\ ap.writers[p].pc = "read"
    /\ ap' = Goes(p, [ap.writers[p] EXCEPT
                        !.pc = "write",
                        !.buffer = IF ap.target.there THEN StripNulls(ap.target.text)
                                   ELSE << >>])
    /\ AppendFrame

\* The writes of the with-block reach the temp file when it is closed.
WriteTemp(p) ==
    /\ ap.writers[p].pc = "write"
    /\ ap' = Goes(p, [ap.writers[p] EXCEPT
                        !.pc = "move",
                        !.temp = File(AppendedText(ap.writers[p].buffer,
                                                   ap.writers[p].content,
                                                   ap.writers[p].add_gap))])
    /\ AppendFrame

(* shutil.move(temp_file, file_path) begins with os.rename(src, dst).  Where
   os.rename replaces, or when the target is absent, the target becomes the
   temp file in one step.  Otherwise os.rename raises and shutil.move goes on
   to copy the temp file over the target and then unlink it.               *)
MoveRename(p) ==
    /\ ap.writers[p].pc = "move"
    /\ IF ap.replaces \/ ~ap.target.there
       THEN ap' = [Goes(p, [ap.writers[p] EXCEPT !.pc = "finally", !.temp = NoFile])
                     EXCEPT !.target = ap.writers[p].temp]
       ELSE ap' = Goes(p, [ap.writers[p] EXCEPT !.pc = "copy_open"])
    /\ AppendFrame

\* copyfile opens the destination for writing, which truncates it.
CopyOpen(p) ==
    /\ ap.writers[p].pc = "copy_open"
    /\ ap' = [Goes(p, [ap.writers[p] EXCEPT !.pc = "copy_write"])
                EXCEPT !.target = File(<< >>)]
    /\ AppendFrame

\* copyfile writes the bytes of the temp file from offset 0 on; what another
\* writer put beyond them stays.
CopyWrite(p) ==
    /\ ap.writers[p].pc = "copy_write"
    /\ ap' = [Goes(p, [ap.writers[p] EXCEPT !.pc = "copy_unlink"])
                EXCEPT !.target = File(ap.writers[p].temp.text
                                       \o From(ap.target.text,
                                               Len(ap.writers[p].temp.text) + 1))]
    /\ AppendFrame

\* os.unlink(src) at the end of shutil.move
CopyUnlink(p) ==
    /\ ap.writers[p].pc = "copy_unlink"
    /\ ap' = Goes(p, [ap.writers[p] EXCEPT !.pc = "finally", !.temp = NoFile])
    /\ AppendFrame

\* AppendReturn without the finally clause.
AppendReturnLeaving(p) ==
    /\ ap.writers[p].pc = "finally"
    /\ ap' = Goes(p, [ap.writers[p] EXCEPT !.pc = "idle", !.appended = @ + 1])
    /\ AppendFrame

\* finally: if temp_file and temp_file.exists(): temp_file.unlink(); return
AppendReturn(p) ==
    /\ ap.writers[p].pc = "finally"
    /\ ap' = Goes(p, [ap.writers[p] EXCEPT !.pc = "idle", !.temp = NoFile,
                                           !.appended = @ + 1])
    /\ AppendFrame

NextAppend ==
    \/ \E p \in Writers, add_gap \in BOOLEAN : \E content \in ContentsOf(p) :
          AppendCall(p, content, add_gap)
    \/ \E p \in Writers : Mkstemp(p)
    \/ \E p \in Writers : ReadExisting(p)
    \/ \E p \in Writers : WriteTemp(p)
    \/ \E p \in Writers : MoveRename(p)
    \/ \E p \in Writers : CopyOpen(p)
    \/ \E p \in Writers : CopyWrite(p)
    \/ \E p \in Writers : CopyUnlink(p)
    \/ \E p \in Writers : AppendReturn(p)

SpecAppend == InitAppend /\ [][NextAppend]_vars

(* The steps of atomic_append that can raise.  Each raise except the last is
   caught by except Exception, whose handler calls _write_to_overflow.     *)
Raises(p, r) ==
    /\ ap.faults < MaxFaults
    /\ ap' = [Goes(p, [r EXCEPT !.pc = "overflow", !.failed = TRUE])
                EXCEPT !.faults = @ + 1]
    /\ AppendFrame

\* mkstemp raises: no temp file was created and temp_file is still None.
MkstempFails(p) ==
    /\ ap.writers[p].pc = "mkstemp"
    /\ Raises(p, ap.writers[p])

\* read_text raises; the with-block closes the empty temp file.
ReadFails(p) ==
    /\ ap.writers[p].pc = "read"
    /\ ap.target.there
    /\ Raises(p, ap.writers[p])

\* A write to the temp file raises: it holds nothing, or the text read.
WriteFails(p) ==
    /\ ap.writers[p].pc = "write"
    /\ \E text \in {<< >>, ap.writers[p].buffer} :
          Raises(p, [ap.writers[p] EXCEPT !.temp = File(text)])

\* The copy of shutil.move cannot open the target.
CopyOpenFails(p) ==
    /\ ap.writers[p].pc = "copy_open"
    /\ Raises(p, ap.writers[p])

\* The copy of shutil.move fails part way: the target holds the first k
\* characters of the temp file.
CopyWriteFails(p) ==
    /\ ap.writers[p].pc = "copy_write"
    /\ ap.faults < MaxFaults
    /\ \E k \in 0..(Len(ap.writers[p].temp.text) - 1) :
          ap' = [Goes(p, [ap.writers[p] EXCEPT !.pc = "overflow", !.failed = TRUE])
                   EXCEPT !.faults = @ + 1,
                          !.target = File(Take(ap.writers[p].temp.text, k)
                                          \o From(ap.target.text, k + 1))]
    /\ AppendFrame

\* os.unlink(src) of shutil.move raises after the copy: the temp file stays.
CopyUnlinkFails(p) ==
    /\ ap.writers[p].pc = "copy_unlink"
    /\ Raises(p, ap.writers[p])

\* _write_to_overflow(file_path, content, add_gap): appends to the overflow
\* file, or fails and logs that the entry is lost.
WriteOverflow(p) ==
    /\ ap.writers[p].pc = "overflow"
    /\ \/ ap' = [Goes(p, [ap.writers[p] EXCEPT !.pc = "finally"])
                   EXCEPT !.overflow = File(AppendedText(ap.overflow.text,
                                                         ap.writers[p].content,
                                                         ap.writers[p].add_gap))]
       \/ /\ ap.faults < MaxFaults
          /\ ap' = [Goes(p, [ap.writers[p] EXCEPT !.pc = "finally"])
                      EXCEPT !.faults = @ + 1]
    /\ AppendFrame

\* temp_file.unlink(missing_ok=True) in the finally clause raises: the
\* exception leaves atomic_append, which does not return.
FinallyFails(p) ==
    /\ ap.writers[p].pc = "finally"
    /\ ap.writers[p].temp.there
    /\ ap' = Goes(p, [ap.writers[p] EXCEPT !.pc = "raised", !.failed = TRUE])
    /\ AppendFrame

NextAppendFaults ==
    \/ NextAppend
    \/ \E p \in Writers : MkstempFails(p)
    \/ \E p \in Writers : ReadFails(p)
    \/ \E p \in Writers : WriteFails(p)
    \/ \E p \in Writers : CopyOpenFails(p)
    \/ \E p \in Writers : CopyWriteFails(p)
    \/ \E p \in Writers : CopyUnlinkFails(p)
    \/ \E p \in Writers : WriteOverflow(p)
    \/ \E p \in Writers : FinallyFails(p)

SpecAppendFaults == InitAppend /\ [][NextAppendFaults]_vars

\* ------------------------------------------------------ _write_to_overflow

\* if n > 100: the highest number an overflow file can get.
MaxOverflowFiles == 100

\* overflow_path.stat().st_size < 1_000_000: the size ceiling, in bytes.
OverflowCeiling == 1000000

\* The size of an overflow file that does not exist.
Absent == -1

\* The overflow files the model can tell apart: one more than the code uses.
OverflowNumbers == 1..(MaxOverflowFiles + 1)

\* How many calls of _write_to_overflow are followed.
MaxOverflowWrites == 2

\* file n can take the entry: it does not exist or is under the ceiling.
HasRoom(sizes, n) == sizes[n] = Absent \/ sizes[n] < OverflowCeiling

\* OverflowLoop that gives up one file early.
RECURSIVE OverflowLoopShort(_, _)
OverflowLoopShort(sizes, n) ==
    IF HasRoom(sizes, n) THEN n
    ELSE IF n + 1 >= MaxOverflowFiles THEN 0
    ELSE OverflowLoopShort(sizes, n + 1)

\* The while loop of _write_to_overflow from n on: the number it breaks at,
\* or 0 when it returns because n went past 100 (the entry is dropped).
RECURSIVE OverflowLoop(_, _)
OverflowLoop(sizes, n) ==
    IF HasRoom(sizes, n) THEN n
    ELSE IF n + 1 > MaxOverflowFiles THEN 0
    ELSE OverflowLoop(sizes, n + 1)

(* _write_to_overflow(file_path, content, add_gap) for content of length len:
   open(overflow_path, "a") creates the file when it is absent, then the
   blank line of the gap, the content and a newline are appended.          *)
WriteToOverflowFile(sizes, len, add_gap) ==
    LET n == OverflowLoop(sizes, 1)
    IN  IF n = 0 THEN sizes
        ELSE [sizes EXCEPT ![n] = (IF @ = Absent THEN 0 ELSE @)
                                     + (IF add_gap THEN 1 ELSE 0) + len + 1]

(* The overflow files as earlier calls leave them: the first full files have
   reached the ceiling, the next one is absent or under it, the others are
   absent.                                                                 *)
OverflowFiles(full, full_size, next_size) ==
    [n \in OverflowNumbers |->
        IF n <= full THEN full_size
        ELSE IF n = full + 1 /\ n <= MaxOverflowFiles THEN next_size
        ELSE Absent]

InitOverflow ==
    /\ world = EmptyWorld
    /\ started = {}
    /\ runCounter = [s \in SessionIds |-> 0]
    /\ nameCache = [s \in SessionIds |-> None]
    /\ stateBlob = [s \in SessionIds |-> NoState]
    /\ title = [s \in SessionIds |-> None]
    /\ step = 0
    /\ out = NoOutput
    /\ hist = << >>
    /\ lookup = NoLookup
    /\ loaded = NoLoad
    /\ race = NoRace
    /\ ap = NoAppend
    /\ gaplog = NoGapLog
    /\ \E full \in 0..MaxOverflowFiles :
       \E full_size \in {OverflowCeiling, OverflowCeiling + 1} :
       \E next_size \in {Absent, 0, OverflowCeiling - 3, OverflowCeiling - 1} :
          ovf = [sizes |-> OverflowFiles(full, full_size, next_size),
                 writes |-> 0, removed |-> FALSE]

\* The variables _write_to_overflow leaves alone.
OverflowFrame ==
    UNCHANGED <<world, started, runCounter, nameCache, stateBlob, title, step, out,
                hist, lookup, loaded, race, ap, gaplog>>

\* One call of _write_to_overflow.
OverflowWrite(len, add_gap) ==
    /\ ovf.writes < MaxOverflowWrites
    /\ ovf' = [ovf EXCEPT !.sizes = WriteToOverflowFile(@, len, add_gap),
                          !.writes = @ + 1]
    /\ OverflowFrame

\* The user deletes overflow file n.
OverflowRemoved(n) ==
    /\ ~ovf.removed
    /\ ovf.sizes[n] # Absent
    /\ ovf' = [ovf EXCEPT !.sizes[n] = Absent, !.removed = TRUE]
    /\ OverflowFrame

NextOverflow ==
    \/ \E len \in {1, 2}, add_gap \in BOOLEAN : OverflowWrite(len, add_gap)
    \/ \E n \in {1, 2, MaxOverflowFiles} : OverflowRemoved(n)

SpecOverflow == InitOverflow /\ [][NextOverflow]_vars

\* ------------------------------------------- check_time_gap, line by line

\* strftime("%Y-%m-%d") names the day: the seconds of a day.
SecondsPerDay == 86400

TicksPerDay == SecondsPerDay * TicksPerSecond

\* config.datetime_mode
DatetimeModes == {"full", "date", "none"}

(* What re.search(r"\[\[([^\]]+)\]\]", line) finds in a line: nothing, or the
   text between the first [[ and ]], which is a date and time (value: the
   second), a date (value: the day) or text that is neither.               *)
NoStamp == [fmt |-> "absent", value |-> 0]

FullStamp(seconds) == [fmt |-> "full", value |-> seconds]

DateStamp(day) == [fmt |-> "date", value |-> day]

JunkStamp == [fmt |-> "junk", value |-> 0]

\* A line of a log file: what wrote it, and the stamp a search finds in it.
Line(kind, stamp) == [kind |-> kind, stamp |-> stamp]

\* format_datetime(mode, ts): the stamp at the head of an entry.
FormatDatetimeIn(mode, ts) ==
    IF mode = "date" THEN DateStamp(ts \div TicksPerDay)
    ELSE IF mode = "full" THEN FullStamp(FormatDatetime(ts))
    ELSE NoStamp

\* datetime.strptime with "%Y-%m-%d %H:%M:%S", then with "%Y-%m-%d".
Parses(stamp) == stamp.fmt \in {"full", "date"}

ParseStamp(stamp) ==
    IF stamp.fmt = "full" THEN ParseDatetime(stamp.value)
    ELSE stamp.value * TicksPerDay

\* CheckTimeGapLines that asks for more than gap_seconds.
CheckTimeGapLinesLate(mode, file, event_time) ==
    /\ mode # "none"
    /\ file.there
    /\ file.lines # << >>
    /\ Parses(file.lines[Len(file.lines)].stamp)
    /\ event_time - ParseStamp(file.lines[Len(file.lines)].stamp)
          > GapSeconds * TicksPerSecond

\* The index of the last line of lines[1..k] with a stamp that parses (0: none).
RECURSIVE LastParsing(_, _)
LastParsing(lines, k) ==
    IF k = 0 THEN 0
    ELSE IF Parses(lines[k].stamp) THEN k
    ELSE LastParsing(lines, k - 1)

\* CheckTimeGapLines that looks for the last timestamp of the whole file.
CheckTimeGapLinesAnywhere(mode, file, event_time) ==
    /\ mode # "none"
    /\ file.there
    /\ LastParsing(file.lines, Len(file.lines)) # 0
    /\ event_time - ParseStamp(file.lines[LastParsing(file.lines,
                                                      Len(file.lines))].stamp)
          >= GapSeconds * TicksPerSecond

\* check_time_gap(file_path, datetime_mode, event_time)
CheckTimeGapLines(mode, file, event_time) ==
    IF mode = "none" \/ ~file.there THEN FALSE
    ELSE IF file.lines = << >> THEN FALSE
    ELSE LET last_line == file.lines[Len(file.lines)]
         IN  IF last_line.stamp.fmt = "absent" THEN FALSE
             ELSE IF ~Parses(last_line.stamp) THEN FALSE
             ELSE event_time - ParseStamp(last_line.stamp)
                     >= GapSeconds * TicksPerSecond

\* write_session_marker: marker.strip() is a rule, the title line and a rule.
MarkerLines == <<Line("rule", NoStamp), Line("title", NoStamp), Line("rule", NoStamp)>>

\* generate_entry: the stamp, then the content, which may run over more lines.
EntryLines(mode, ts, more) ==
    <<Line("entry", FormatDatetimeIn(mode, ts))>>
        \o (IF more THEN <<Line("more", NoStamp)>> ELSE << >>)

\* What a line of the captured tool output can show to the search.
OutputStamps == {NoStamp, JunkStamp, FullStamp(0), DateStamp(0)}

\* detect_and_log_failure: the failure entry, then the lines of the tool
\* output, each indented by two blanks.
FailureLines(mode, ts, output) ==
    <<Line("failure", FormatDatetimeIn(mode, ts))>>
        \o [k \in 1..Len(output) |-> Line("output", output[k])]

\* How many writes to the log file are followed.
MaxGapWrites == 3

\* The ticks between one write and the next: none, and those around
\* gap_seconds and around a day.
GapElapsed ==
    {0, 1, GapSeconds * TicksPerSecond - 1, GapSeconds * TicksPerSecond,
     GapSeconds * TicksPerSecond + 1, TicksPerDay}

\* No call of check_time_gap yet.
NotChecked == [done |-> FALSE, gap |-> FALSE, event_time |-> 0, lines |-> << >>,
               there |-> FALSE, after |-> "nothing", since |-> 0]

InitGapLog ==
    /\ world = EmptyWorld
    /\ started = {}
    /\ runCounter = [s \in SessionIds |-> 0]
    /\ nameCache = [s \in SessionIds |-> None]
    /\ stateBlob = [s \in SessionIds |-> NoState]
    /\ title = [s \in SessionIds |-> None]
    /\ step = 0
    /\ out = NoOutput
    /\ hist = << >>
    /\ lookup = NoLookup
    /\ loaded = NoLoad
    /\ race = NoRace
    /\ ap = NoAppend
    /\ ovf = NoOverflow
    /\ \E mode \in DatetimeModes, there \in BOOLEAN :
          gaplog = [mode |-> mode, file |-> [there |-> there, lines |-> << >>],
                    clock |-> 0, writes |-> 0, wrote |-> "nothing",
                    last |-> NotChecked]

\* The variables the writers of one log file leave alone.
GapLogFrame ==
    UNCHANGED <<world, started, runCounter, nameCache, stateBlob, title, step, out,
                hist, lookup, loaded, race, ap, ovf>>

\* atomic_append(file_path, content, add_gap) on the lines of the file.
AppendLines(file, lines, add_gap) ==
    [there |-> TRUE,
     lines |-> file.lines \o (IF add_gap THEN <<Line("blank", NoStamp)>> ELSE << >>)
                 \o lines]

\* _maybe_write_session_marker, elapsed ticks after the write before.
GapWriteMarker(elapsed) ==
    /\ gaplog.writes < MaxGapWrites
    /\ gaplog' = [gaplog EXCEPT
                    !.file = AppendLines(@, MarkerLines, FALSE),
                    !.clock = @ + elapsed,
                    !.writes = @ + 1,
                    !.wrote = "marker"]
    /\ GapLogFrame

\* log_entry: check_time_gap, then atomic_append(path, entry, add_gap).
GapWriteEntry(elapsed, more) ==
    /\ gaplog.writes < MaxGapWrites
    /\ LET event_time == gaplog.clock + elapsed
           add_gap == CheckTimeGapLines(gaplog.mode, gaplog.file, event_time)
       IN  gaplog' = [gaplog EXCEPT
                        !.file = AppendLines(@, EntryLines(gaplog.mode, event_time,
                                                           more), add_gap),
                        !.clock = event_time,
                        !.writes = @ + 1,
                        !.wrote = IF more THEN "long entry" ELSE "entry",
                        !.last = [done |-> TRUE, gap |-> add_gap,
                                  event_time |-> event_time,
                                  lines |-> gaplog.file.lines,
                                  there |-> gaplog.file.there,
                                  after |-> gaplog.wrote,
                                  since |-> elapsed]]
    /\ GapLogFrame

\* log_failure, in the invocation that wrote the entry before it.
GapWriteFailure(output) ==
    /\ gaplog.writes < MaxGapWrites
    /\ gaplog.wrote \in {"entry", "long entry"}
    /\ gaplog' = [gaplog EXCEPT
                    !.file = AppendLines(@, FailureLines(gaplog.mode, gaplog.clock,
                                                         output), FALSE),
                    !.writes = @ + 1,
                    !.wrote = IF output = << >> THEN "failure" ELSE "failure block"]
    /\ GapLogFrame

NextGapLog ==
    \/ \E elapsed \in GapElapsed : GapWriteMarker(elapsed)
    \/ \E elapsed \in GapElapsed, more \in BOOLEAN : GapWriteEntry(elapsed, more)
    \/ GapWriteFailure(<< >>)
    \/ \E stamp \in OutputStamps : GapWriteFailure(<<NoStamp, stamp>>)

SpecGapLog == InitGapLog /\ [][NextGapLog]_vars

\* ------------------------------------------------------------ properties

\* The directories of the log root whose name embeds session id s.
DirsOf(w, s) == {d \in w.dirs : Contains(d, s)}

\* content without the blocks written at clock value now
StripStep(content, now) == SelectSeq(content, LAMBDA b : b[2] # now)

\* The files of w2 that held something before the invocation at clock value now.
KeptFiles(w2, now) == {f \in w2.files : StripStep(f.content, now) # << >>}

\* Every file of w is in w2, possibly under another name, with what it held,
\* and w2 has no other file that held something before clock value now.
ContentsKept(w, w2, now) ==
    /\ Cardinality(KeptFiles(w2, now)) = Cardinality(w.files)
    /\ {StripStep(f.content, now) : f \in KeptFiles(w2, now)} = {f.content : f \in w.files}

\* C3: an invocation, whatever name it reconciles the directory and the
\* categories to, leaves every log file that existed before it in place with
\* the content it had (new blocks are only added at the end): no file is
\* deleted, truncated, overwritten or merged, only names change.
C3_ReconcileKeepsContents == [][hist' # hist => ContentsKept(world, world', Clock')]_vars

\* C3 happens: the directory carries a name and per-category reconciliation
\* has moved a superseded file to a sequence number.
C3_Witness ==
    /\ \E f \in world.files : HasSequenceNumber(f.name)
    /\ \E d \in world.dirs : ExtractNameFromDirectory(d, TheSession) # None

\* C4: after any sequence of invocations for one session id, whatever names
\* they resolve, the log root holds at most one directory embedding that id.
C4_OneDirectoryPerSession == Cardinality(DirsOf(world, TheSession)) <= 1

\* C4 happens: two invocations resolved different names, the second none at
\* all, and the session still has one directory.
C4_Witness ==
    /\ Len(hist) >= 3
    /\ hist[1].name = None /\ hist[2].name # None /\ hist[3].name = None
    /\ Cardinality(DirsOf(world, TheSession)) = 1

\* The files holding the block of the given kind written by invocation stp.
Holders(kind, stp) ==
    {f \in world.files : \E i \in 1..Len(f.content) :
        f.content[i][1] = kind /\ f.content[i][2] = stp}

\* How often file f holds that block.
Times(f, kind, stp) ==
    Cardinality({i \in 1..Len(f.content) : f.content[i][1] = kind /\ f.content[i][2] = stp})

\* The block kinds that are log entries; one per category.
EntryKinds == {"entry", "cmd", "task"}

\* Invocation l wrote an entry of the given kind.
Wrote(l, kind) == hist[l].logged /\ (kind = "task" => hist[l].task)

\* <<i, j, k>>: the session was unnamed until invocation j - 1 and logged at i,
\* carried one name from j to k - 1 and logged at j, and carries another name
\* at k, the last invocation, which logged too.
Generations(kind) ==
    {g \in (1..Len(hist)) \X (1..Len(hist)) \X (1..Len(hist)) :
        /\ g[1] < g[2] /\ g[2] < g[3] /\ g[3] = Len(hist)
        /\ Wrote(g[1], kind) /\ Wrote(g[2], kind) /\ Wrote(g[3], kind)
        /\ hist[g[2]].name # None /\ hist[g[3]].name \notin {None, hist[g[2]].name}
        /\ \A l \in 1..(g[2] - 1) : hist[l].name = None
        /\ \A l \in g[2]..(g[3] - 1) : hist[l].name = hist[g[2]].name}

\* C7 as stated: after unnamed, named and renamed logging the three
\* generations of each category are held by three distinct files.
C7_ThreeDistinctFiles ==
    \A kind \in EntryKinds : \A g \in Generations(kind) :
        \E f1 \in Holders(kind, g[1]), f2 \in Holders(kind, g[2]), f3 \in Holders(kind, g[3]) :
            f1 # f2 /\ f2 # f3 /\ f1 # f3

\* C7: after unnamed, named and renamed logging every entry of each category
\* is held exactly once, by exactly one file, and the unnamed and the named
\* generation are held by the same file: the unnamed file was renamed and
\* appended to.
C7_GenerationsKeptInRenamedFile ==
    \A kind \in EntryKinds : \A g \in Generations(kind) :
        /\ \A l \in 1..Len(hist) : Wrote(l, kind) =>
              /\ Cardinality(Holders(kind, l)) = 1
              /\ \A f \in Holders(kind, l) : Times(f, kind, l) = 1
        /\ Holders(kind, g[1]) = Holders(kind, g[2])

\* C7 happens: three generations of some category have been logged.
C7_Witness == \E kind \in EntryKinds : Generations(kind) # {}

UnnamedDir == BuildSessionDirectory(None, TheSession, User)

\* .{type}_{shell}_{id}_{user}.log
UnnamedFile(type) ==
    DOT \o type \o US \o ShellType \o US \o TheSession \o US \o User \o DOTLOG

\* .{type}_{shell}__{N}__{id}_{user}.log
NamedFile(type, N) ==
    DOT \o type \o US \o ShellType \o US2 \o N \o US2 \o TheSession \o US \o User \o DOTLOG

\* The step is the first invocation that resolves a name for a session that
\* was unnamed in every invocation before.
FirstNamed ==
    /\ hist' # hist
    /\ \A l \in 1..Len(hist) : hist[l].name = None
    /\ hist'[Len(hist')].name # None
    /\ DirsOf(world, TheSession) = {UnnamedDir}

\* The step leaves named_dir as the session's directory and every unnamed
\* unified and shell file in it under its named name, with the content it had
\* and, when the invocation logged, new blocks after it.
FilesFollow(named_dir, N) ==
    /\ DirsOf(world', TheSession) = {named_dir}
    /\ \A type \in {SESSLOG, SHELL} :
          FileExists(world, UnnamedDir, UnnamedFile(type)) =>
             /\ FileExists(world', named_dir, NamedFile(type, N))
             /\ StripStep(ContentOf(world', named_dir, NamedFile(type, N)), Clock')
                    = ContentOf(world, UnnamedDir, UnnamedFile(type))
             /\ hist'[Len(hist')].logged =>
                    Len(ContentOf(world', named_dir, NamedFile(type, N)))
                        > Len(ContentOf(world, UnnamedDir, UnnamedFile(type)))

\* C8 as stated: the first invocation that resolves the name N renames the
\* directory __{id}_{user} to {N}__{id}_{user} and the unnamed files in it to
\* their named names, content intact, and appends the new entries to them.
C8_DirectoryTakesRawName ==
    [][FirstNamed => LET N == hist'[Len(hist')].name
                     IN  FilesFollow(N \o US2 \o TheSession \o US \o User, N)]_vars

\* C8: the same with the directory renamed to {sanitize_dirname(N)}__{id}_{user};
\* the file names take N as it is.
C8_DirectoryTakesSanitizedName ==
    [][FirstNamed => LET N == hist'[Len(hist')].name
                     IN  FilesFollow(SanitizeDirname(N) \o US2 \o TheSession \o US \o User,
                                     N)]_vars

\* C8 happens: a session that logged unnamed has resolved the name "y:" and
\* logged again, into the renamed files.
C8_Witness ==
    /\ Len(hist) >= 2
    /\ \A l \in 1..(Len(hist) - 1) : hist[l].name = None
    /\ \E l \in 1..(Len(hist) - 1) : hist[l].logged
    /\ hist[Len(hist)].name = <<"y", ":">>
    /\ hist[Len(hist)].logged
    /\ \A type \in {SESSLOG, SHELL} :
          Len(ContentOf(world, SanitizeDirname(<<"y", ":">>) \o US2 \o TheSession \o US \o User,
                        NamedFile(type, <<"y", ":">>))) >= 3

\* Directory reconciliation followed by per-category reconciliation, as
\* SessionLogger runs them: the outcomes [w, dir, targets].
ReconcileAll(w, s, name, faults) ==
    UNION {{[w |-> rf.w, dir |-> rd.dir, targets |-> rf.targets]
              : rf \in ReconcileSessionFiles(rd.w, rd.dir, s, name, ShellType, User, faults)}
            : rd \in {r \in ReconcileSessionDirectory(w, s, name, User, faults) : ~r.raised}}

\* C9: from every state an invocation leaves, reconciling twice in succession
\* with one name renames nothing the second time and returns the same
\* directory and the same target names.
C9_ReconcileIdempotent ==
    \A N \in Names :
        \A r1 \in ReconcileAll(world, TheSession, N, {}) :
            \A r2 \in ReconcileAll(r1.w, TheSession, N, {}) :
                r2.w = r1.w /\ r2.dir = r1.dir /\ r2.targets = r1.targets

\* The files of category file_type in d that carry no sequence number.
Unsequenced(d, file_type) ==
    {n \in FindSessionFiles(world, d, TheSession, << >>, file_type) : ~HasSequenceNumber(n)}

\* C10: after every invocation each category of the session's directory has
\* at most one file without a sequence number.
C10_OneCurrentFilePerCategory ==
    \A d \in DirsOf(world, TheSession) : \A file_type \in {SESSLOG, SHELL, TASKS} :
        Cardinality(Unsequenced(d, file_type)) <= 1

\* C1: every invocation, whatever its payload and whichever call fails,
\* prints the acknowledgment exactly once and ends successfully.
C1_AlwaysAcknowledged == out.exit # "none" => out.acks = 1 /\ out.exit = "ok"

\* C2: an invocation whose payload is not valid JSON (text that does not
\* parse, or bytes that are not text) prints the acknowledgment, ends
\* successfully and changes neither the log root nor the session's records.
C2_InvalidJsonAcknowledged ==
    [][(hist' # hist /\ out'.payload \in {"malformed", "undecodable"}) =>
          /\ out'.acks = 1 /\ out'.exit = "ok"
          /\ UNCHANGED <<world, started, runCounter, nameCache, stateBlob>>]_vars

\* The blocks a file holds.
BlocksOf(w, d, n) == {ContentOf(w, d, n)[i] : i \in 1..Len(ContentOf(w, d, n))}

\* File g holds what file f held, followed by whole blocks only.
Extends(g, f) ==
    /\ Len(g.content) >= Len(f.content)
    /\ SubSeq(g.content, 1, Len(f.content)) = f.content
    /\ \A i \in (Len(f.content) + 1)..Len(g.content) : g.content[i][1] # "torn"

\* C5: whichever step of an append fails, every file holds afterwards what
\* it held before, followed by whole blocks only, and a block that went to an
\* overflow file is not in the file it was meant for.
C5_AppendAllOrNothing ==
    [][hist' # hist =>
          /\ \A f \in world.files : \E g \in world'.files : Extends(g, f)
          /\ \A g \in world'.files :
                EndsWith(g.name, OVERFLOW1) =>
                    BlocksOf(world', g.dir, g.name)
                      \cap BlocksOf(world', g.dir,
                                    Take(g.name, Len(g.name) - Len(OVERFLOW1))) = {}]_vars

\* The session whose invocation wrote the first block of file f.
OwnerOf(f) == hist[f.content[1][2]].session

\* C6: every file holds blocks of one session only, lies in a directory of
\* that session and carries that session's id in its name, whatever the
\* other session did.
C6_SessionsKeepApart ==
    \A f \in world.files :
        /\ \A i \in 1..Len(f.content) : hist[f.content[i][2]].session = OwnerOf(f)
        /\ EndsWith(f.dir, US2 \o OwnerOf(f) \o US \o User)
        /\ Contains(f.name, US \o OwnerOf(f) \o US)

\* ------------------------------------------------------------ run numbers

\* The run numbers of the start markers written so far, in order.
MarkerRuns == SelectSeq([i \in 1..Len(hist) |-> hist[i].run], LAMBDA r : r # 0)

\* C11: the start marker of the first run carries number 1 and the start
\* marker of each later run carries the number of the previous run plus one.
C11_RunNumberIncrements ==
    \A i \in 1..Len(MarkerRuns) : MarkerRuns[i] = i

\* C12: an invocation that finds no persisted run state of its session and
\* writes a start marker numbers it with the count of the start markers
\* written for the session so far plus one, whatever the session was renamed
\* to in between, and leaves that number in the run counter.
C12_RunNumberRecovered ==
    [][(/\ Len(hist') = Len(hist) + 1
        /\ TheSession \notin started
        /\ runCounter[TheSession] = 0
        /\ hist'[Len(hist')].run # 0)
       => (/\ hist'[Len(hist')].run = Len(MarkerRuns) + 1
           /\ runCounter'[TheSession] = Len(MarkerRuns) + 1)]_vars

\* ---------------------------------------------------------------- time gap

\* A step appended one entry of the given kinds to a file whose last line
\* carried a timestamp T: appended within second T + 1799 the entry has no
\* blank line ahead of it, within second T + 1801 it has exactly one.
GapAsClaimed(kinds) ==
    \A f \in world.files, g \in world'.files :
        (/\ f.content # << >>
         /\ Len(g.content) = Len(f.content) + 1
         /\ SubSeq(g.content, 1, Len(f.content)) = f.content
         /\ f.content[Len(f.content)][1] \in Stamped
         /\ g.content[Len(g.content)][1] \in kinds)
        => LET T == FormatDatetime(f.content[Len(f.content)][2])
               new == g.content[Len(g.content)]
           IN  /\ FormatDatetime(new[2]) = T + 1799 => new[5] = 0
               /\ FormatDatetime(new[2]) = T + 1801 => new[5] = 1

\* C13 as stated: in every log whose last line carries timestamp T, an entry
\* appended at T + 1799 s gets no blank line and an entry appended at
\* T + 1801 s gets exactly one blank line ahead of it.
C13_GapInEveryLog == [][GapAsClaimed(Stamped)]_vars

\* C13, amended: in the shell log and the unified log, an entry appended at
\* T + 1799 s to a file whose last line carries timestamp T gets no blank
\* line and an entry appended at T + 1801 s gets exactly one blank line.
C13_GapInShellAndUnifiedLog == [][GapAsClaimed({"cmd", "entry"})]_vars

\* A unified log holds an entry written 1799 s after the one before, without
\* a blank line, and an entry written 1801 s after the one before, with one.
C13_Witness ==
    \E f \in world.files :
        \E i, j \in 1..(Len(f.content) - 1) :
            /\ f.content[i][1] = "entry" /\ f.content[i + 1][1] = "entry"
            /\ f.content[j][1] = "entry" /\ f.content[j + 1][1] = "entry"
            /\ FormatDatetime(f.content[i + 1][2]) = FormatDatetime(f.content[i][2]) + 1799
            /\ f.content[i + 1][5] = 0
            /\ FormatDatetime(f.content[j + 1][2]) = FormatDatetime(f.content[j][2]) + 1801
            /\ f.content[j + 1][5] = 1

\* ----------------------------------------------------------- name lookup

\* The positions of the transcript records with a non-empty title.
TitledRecords == {i \in 1..Len(lookup.records) : lookup.records[i] # None}

\* The transcript yields a title to the call.
TranscriptYields == lookup.has_path /\ TitledRecords # {}

\* The entries of the index for the session.
SessionEntries ==
    {i \in 1..Len(lookup.entries) : lookup.entries[i].sessionId = TheSession}

\* The index yields a title to the call.
IndexYields ==
    /\ lookup.has_path
    /\ \E i \in SessionEntries : lookup.entries[i].customTitle # None

\* C14: get_session_name returns the last non-empty title record of the
\* transcript when there is one, whatever index and cache hold; else the
\* title of the index entry of the session when it has one; else the cached
\* name when there is one; else none.
C14_NameLookupOrder ==
    lookup.done =>
        IF TranscriptYields
        THEN \E i \in TitledRecords :
                /\ \A j \in TitledRecords : j <= i
                /\ lookup.result = lookup.records[i]
        ELSE IF IndexYields
        THEN \E i \in SessionEntries : lookup.result = lookup.entries[i].customTitle
        ELSE lookup.result = lookup.cached

\* A call returned the last title of a transcript whose records, index entry
\* and cache name three different things.
C14_Witness ==
    /\ lookup.done
    /\ lookup.has_path
    /\ lookup.records = << <<"x">>, <<"y",":">> >>
    /\ \E i \in SessionEntries : lookup.entries[i].customTitle = <<"x">>
    /\ lookup.cached = <<"c">>
    /\ lookup.result = <<"y",":">>

\* ------------------------------------------------------- rename_session

\* The last block of file n of directory d is an entry of the given kind
\* written at event time now.
EndsWithEntry(w, d, n, kind, now) ==
    LET c == ContentOf(w, d, n)
    IN  c # << >> /\ c[Len(c)][1] = kind /\ c[Len(c)][2] = now

\* The step is a hook invocation for TheSession that can read the transcript,
\* whose last title is N; the invocation resolves N, leaves the directory of
\* N as the one directory of the session and, when it logs an entry, leaves it
\* at the end of the unified and the shell file that carry N.
FollowsTitle(N) ==
    (/\ Len(hist') = Len(hist) + 1
     /\ hist'[Len(hist')].session = TheSession
     /\ hist'[Len(hist')].transcript
     /\ title[TheSession] = N)
    => LET last == hist'[Len(hist')]
           dir == BuildSessionDirectory(N, TheSession, User)
       IN  /\ last.name = N
           /\ DirsOf(world', TheSession) = {dir}
           /\ last.event = "PostToolUse" /\ out'.exit = "ok" /\ last.logged =>
                  /\ EndsWithEntry(world', dir, NamedFile(SESSLOG, N), "entry", last.time)
                  /\ EndsWithEntry(world', dir, NamedFile(SHELL, N), "cmd", last.time)

\* C15: the hook invocation that follows a title written to the transcript
\* (by rename_session, which also clears the cache, or by the host, which
\* leaves the cached name) resolves that title, and at its end the session
\* directory carries it and the entry it logs is the last one of the files
\* named after it.
C15_RenameSeenByNextHook ==
    [][\A N \in {SanitizeSessionName(n) : n \in Names} \cup Names : FollowsTitle(N)]_vars

\* rename_session named a session y that logged under another name before,
\* and the next invocation logged under y.
C15_Witness ==
    /\ Len(hist) >= 2
    /\ hist[Len(hist)].name = <<"y">>
    /\ hist[Len(hist)].logged
    /\ hist[Len(hist) - 1].name \notin {None, <<"y">>}
    /\ hist[Len(hist) - 1].logged
    /\ EndsWithEntry(world, BuildSessionDirectory(<<"y">>, TheSession, User),
                     NamedFile(SESSLOG, <<"y">>), "entry", Clock)

\* ----------------------------------------------------------------- filter

\* C16: an invocation for a tool whose category is not in the non-empty
\* allow-list adds no block to any file (no entry, no start marker, no
\* blank line), creates no file, leaves the run state alone and prints the
\* acknowledgment exactly once.
C16_FilteredAppendsNothing ==
    [][(Len(hist') = Len(hist) + 1 /\ hist'[Len(hist')].filtered)
       => (/\ ContentsKept(world, world', Clock')
           /\ \A f \in world'.files : StripStep(f.content, Clock') = f.content
           /\ Cardinality(world'.files) = Cardinality(world.files)
           /\ started' = started
           /\ runCounter' = runCounter
           /\ out'.acks = 1 /\ out'.exit = "ok")]_vars

\* A tool event outside the allow-list followed a logged one; the logs hold
\* the entry of the first and nothing later.
C16_Witness ==
    /\ Len(hist) >= 2
    /\ hist[Len(hist)].filtered
    /\ hist[Len(hist) - 1].logged
    /\ out.acks = 1
    /\ \E f \in world.files :
          EndsWithEntry(world, f.dir, f.name, "entry", hist[Len(hist) - 1].time)

\* ---------------------------------------------------------- configuration

\* The value a JSON value holds under a path of keys; def tells whether every
\* key of the path is there.
RECURSIVE ValueAt(_, _)
ValueAt(value, path) ==
    IF path = << >> THEN [def |-> TRUE, v |-> value]
    ELSE IF value.kind = "dict" /\ Head(path) \in DOMAIN value.keys
    THEN ValueAt(value.keys[Head(path)], Tail(path))
    ELSE [def |-> FALSE, v |-> JNull]

\* What the two files of the call give for a path: the value of the
\* per-session file if it has one, else that of the global file if it has
\* one, else the default.
FromFiles(path, default) ==
    LET s == ValueAt(LoadConfigFile(loaded.session), path)
        g == ValueAt(LoadConfigFile(loaded.global), path)
    IN  IF s.def THEN s.v ELSE IF g.def THEN g.v ELSE default

\* The environment of the call sets a verbosity load_configuration accepts.
EnvVerbosityValid ==
    LET v == IntOfText(loaded.env.verbosity)
    IN  v.ok /\ v.int <= MaxVerbosity

\* C17: with well-formed config files, every field of the Config has the
\* value of the highest source that defines it, environment over per-session
\* file over global file over default, the dictionaries of the two files
\* merged key by key.
C17_ConfigPrecedence ==
    (loaded.done /\ loaded.global \in WellFormedFiles /\ loaded.session \in WellFormedFiles)
    => /\ ~loaded.config.raised
       /\ loaded.config.verbosity =
            IF EnvVerbosityValid THEN IntOfText(loaded.env.verbosity).int
            ELSE FromFiles(<<"verbosity">>, JInt(DefaultVerbosity)).int
       /\ loaded.config.filter_include =
            IF loaded.env.filter # None THEN <<JStr(loaded.env.filter)>>
            ELSE FromFiles(<<"filter", "include">>, JList(<< >>)).items
       /\ \A cat \in ActionOnlyCategories :
            loaded.config.action_only[cat] =
                IF cat = "todo" /\ loaded.env.todo # None
                THEN loaded.env.todo \in TrueTexts
                ELSE FromFiles(<<"action_only", "categories", cat>>,
                               JBool(DefaultActionOnly[cat])).bool
       /\ loaded.config.failure_capture_enabled =
            FromFiles(<<"failure_capture", "enabled">>, JBool(FALSE)).bool
       /\ loaded.config.failure_capture_max_lines =
            FromFiles(<<"failure_capture", "max_stderr_lines">>,
                      JInt(DefaultMaxLines)).int

\* The environment overrides the verbosity of both files, the per-session
\* file sets one action-only category and one failure-capture key, and the
\* sibling keys that only the global file sets are still in force.
C17_Witness ==
    /\ loaded.done
    /\ loaded.env.verbosity = <<"0">>
    /\ ValueAt(LoadConfigFile(loaded.global), <<"verbosity">>).v = JInt(1)
    /\ ValueAt(LoadConfigFile(loaded.session), <<"verbosity">>).v = JInt(3)
    /\ ValueAt(LoadConfigFile(loaded.global), <<"action_only", "categories", "todo">>).def
    /\ ValueAt(LoadConfigFile(loaded.session), <<"action_only", "categories", "bash">>).def
    /\ ValueAt(LoadConfigFile(loaded.global), <<"failure_capture", "enabled">>).def
    /\ ValueAt(LoadConfigFile(loaded.session), <<"failure_capture", "max_stderr_lines">>).def
    /\ loaded.config.verbosity = 0
    /\ loaded.config.action_only = [cat \in ActionOnlyCategories |-> cat = "bash"]
    /\ loaded.config.failure_capture_enabled
    /\ loaded.config.failure_capture_max_lines = 10

\* C18: whatever the two config files hold, load_configuration returns a
\* Config, and a file with nothing valid in it leaves every field at its
\* default.
C18_ConfigNeverAborts ==
    loaded.done =>
        /\ ~loaded.config.raised
        /\ (/\ loaded.global \in BrokenFiles \cup {AbsentFile}
            /\ loaded.session \in BrokenFiles \cup {AbsentFile}
            /\ loaded.env = NoEnv)
           => loaded.config = DefaultConfig

\* -------------------------------------------------------- failed renames

RenameFaults == {"dir_rename", "file_rename"}

\* The step is a tool event during which renames fail and nothing else does,
\* after invocations without faults the last of which logged an entry.
RenameFails ==
    /\ Len(hist') = Len(hist) + 1
    /\ hist # << >>
    /\ \A l \in 1..Len(hist) : hist[l].faults = {}
    /\ hist[Len(hist)].logged
    /\ hist'[Len(hist')].event = "PostToolUse"
    /\ hist'[Len(hist')].faults # {}
    /\ hist'[Len(hist')].faults \subseteq RenameFaults

\* The unified and shell files that hold the history of the session: those
\* that end with the entry of the last invocation.
HistoryFiles ==
    {f \in world.files : \E kind \in {"entry", "cmd"} :
        EndsWithEntry(world, f.dir, f.name, kind, Clock)}

\* C19: an invocation during which renames fail still ends well, and appends
\* its entry to the file that holds the history of the session: each file
\* that ended with the previous entry, under whatever name it has now, ends
\* with the new one.
C19_RenameFailureKeepsTarget ==
    [][RenameFails =>
        /\ out'.exit = "ok" /\ out'.acks = 1
        /\ hist'[Len(hist')].logged
        /\ \A f \in HistoryFiles :
              \E g \in world'.files :
                 /\ StripStep(g.content, Clock') = f.content
                 /\ g.content[Len(g.content)][1] = f.content[Len(f.content)][1]
                 /\ g.content[Len(g.content)][2] = Clock']_vars

\* The directories holding a file with a block that invocation p appended.
WroteInto(p) ==
    {f.dir : f \in {g \in world.files :
                       \E i \in 1..Len(g.content) :
                          /\ g.content[i][1] \in Stamped
                          /\ g.content[i][2] = EventTime(p)}}

(* C20: when two overlapping invocations for one session reconcile its
   directory toward the same expected name, the one that loses the rename
   race carries on: the log root never holds a second directory embedding
   the session id, each invocation's logger works in the expected directory,
   and what each appended is in that directory alone.                      *)
C20_RenameRaceIsSuccess ==
    /\ Cardinality(DirsOf(world, TheSession)) <= 1
    /\ \A p \in Processes :
          /\ race[p].pc \in {"log", "done"} => race[p].dir = ExpectedDir(p)
          /\ race[p].pc = "done" =>
                /\ WroteInto(p) = {ExpectedDir(p)}
                /\ DirsOf(world, TheSession) = {ExpectedDir(p)}

\* Both invocations have logged, and one of them lost the rename race: its
\* rename raised because the other had moved the directory, so main was left
\* with the old path.
C20_Witness ==
    /\ \A p \in Processes : race[p].pc = "done"
    /\ \E p \in Processes :
          /\ race[p].main_dir # ExpectedDir(p)
          /\ race[p].main_dir \notin world.dirs
          /\ WroteInto(p) = {ExpectedDir(p)}

\* The texts of the calls made so far, each with its blank line and newline.
RECURSIVE Concat(_)
Concat(texts) == IF texts = << >> THEN << >> ELSE Head(texts) \o Concat(Tail(texts))

\* Every way to line up some of the calls made so far, each at most once.
RECURSIVE Arrangements(_)
Arrangements(S) ==
    {<< >>} \cup UNION {{<<x>> \o o : o \in Arrangements(S \ {x})} : x \in S}

\* The target holds its original content (as it was, or with its null bytes
\* stripped) followed by complete entries of calls made so far, none twice.
FullyFormed ==
    \E order \in Arrangements(1..Len(ap.calls)) :
       LET entries == Concat([k \in 1..Len(order) |-> ap.calls[order[k]].text])
       IN  \/ /\ order = << >>
              /\ ap.target = ap.original
           \/ /\ order # << >>
              /\ ap.target = File(StripNulls(ap.original.text) \o entries)

(* C21: in every interleaving of two atomic_append calls on one target, the
   target holds at each step a fully formed state: its original content
   followed by zero or more complete entries, never part of an entry and
   never an entry twice.                                                   *)
C21_TargetAlwaysFullyFormed == FullyFormed

(* C26: a successful atomic_append(file, content, add_gap) that no other call
   overlaps leaves the target equal to its previous content, then one blank
   line if add_gap, then the content, then a newline, with the null bytes
   removed; so what the file held before stays a prefix of it.             *)
C26_AppendKeepsPrefix ==
    \A p \in Writers :
       (ap.writers[p].pc = "finally" /\ ap.writers[p].alone) =>
          LET r == ap.writers[p]
              previous == SelectSeq(r.before.text, LAMBDA c : c # NUL)
              entry == (IF r.add_gap THEN <<NL>> ELSE << >>)
                         \o SelectSeq(r.raw, LAMBDA c : c # NUL) \o <<NL>>
          IN  /\ ap.target = File(previous \o entry)
              /\ \A k \in 1..Len(ap.target.text) : ap.target.text[k] # NUL
              /\ Take(ap.target.text, Len(previous)) = previous

\* The second of two appends in sequence has succeeded, with a blank line
\* ahead of content that held a null byte, on a file that held one too.
C26_Witness ==
    \E p \in Writers :
       /\ ap.writers[p].pc = "finally"
       /\ ap.writers[p].alone
       /\ ap.writers[p].add_gap
       /\ ap.writers[p].raw # ap.writers[p].content
       /\ ap.original = File(<<"o", NUL, NL>>)
       /\ \E q \in Writers \ {p} : ap.writers[q].appended = 1
       /\ Len(ap.target.text) = 7

(* C27: when atomic_append returns, on the success path and on every failure
   path, no temporary file it created remains.                             *)
C27_NoTempFileLeft ==
    \A p \in Writers : ap.writers[p].pc = "idle" => ~ap.writers[p].temp.there

\* A call has returned after its temp file was created and a later step
\* raised: the copy of shutil.move wrote the target and could not unlink the
\* temp file.
C27_Witness ==
    \E p \in Writers :
       /\ ap.writers[p].pc = "idle"
       /\ ap.writers[p].appended = 1
       /\ ap.writers[p].failed
       /\ ap.overflow.there
       /\ ap.target = File(StripNulls(ap.original.text)
                           \o AppendedText(<< >>, ap.writers[p].content,
                                           ap.writers[p].add_gap))
       /\ ap.original.there

\* The overflow files with room for an entry, among those the code may use.
WithRoom(sizes) ==
    {n \in 1..MaxOverflowFiles : sizes[n] = Absent \/ sizes[n] < OverflowCeiling}

(* C28: the overflow fallback writes to the overflow file with the lowest
   number n in 1..100 that does not exist or is smaller than 1,000,000
   bytes; when all of the files 1..100 have reached that size the entry is
   dropped and no file is modified; no overflow file numbered above 100 is
   ever created.                                                           *)
C28_LowestOverflowFileWithRoom ==
    [][ovf'.writes = ovf.writes + 1 =>
         /\ \A n \in OverflowNumbers :
               IF WithRoom(ovf.sizes) # {} /\ n = Min(WithRoom(ovf.sizes))
               THEN ovf'.sizes[n] > ovf.sizes[n]
               ELSE ovf'.sizes[n] = ovf.sizes[n]
         /\ ovf'.sizes[MaxOverflowFiles + 1] = Absent]_vars

\* An entry went to overflow file 100, the file 99 before it being full, and
\* the next entry was dropped because file 100 had reached the ceiling too.
C28_Witness ==
    /\ ovf.writes = 2
    /\ WithRoom(ovf.sizes) = {}
    /\ ovf.sizes[MaxOverflowFiles] = OverflowCeiling + 1
    /\ ovf.sizes[MaxOverflowFiles - 1] = OverflowCeiling
    /\ ~ovf.removed

\* The last line of the file the last check_time_gap read, and how far the
\* event was from the timestamp of line k of that file.
LastLineRead == gaplog.last.lines[Len(gaplog.last.lines)]

ElapsedSince(k) == gaplog.last.event_time - ParseStamp(gaplog.last.lines[k].stamp)

\* The last timestamp anywhere in the file that was read (0: there is none).
LastStampRead == LastParsing(gaplog.last.lines, Len(gaplog.last.lines))

(* C29 as stated: a blank-line gap is inserted before an entry if and only
   if the time elapsed since the last timestamp in the file exceeds 1800 s;
   at exactly 1800 s no gap is inserted.                                   *)
C29_GapIffElapsedExceeds ==
    gaplog.last.done =>
       (gaplog.last.gap <=>
           /\ LastStampRead # 0
           /\ ElapsedSince(LastStampRead) > GapSeconds * TicksPerSecond)

(* C29, amended: a gap is inserted before an entry if and only if the
   timestamp mode is not none, the last line of the file carries a timestamp
   that parses, and the event time is at least 1800 s later than that
   timestamp as it was written; at exactly 1800 s a gap is inserted.       *)
C29_GapIffLastLineOldEnough ==
    gaplog.last.done =>
       (gaplog.last.gap <=>
           /\ gaplog.mode # "none"
           /\ gaplog.last.lines # << >>
           /\ LastLineRead.stamp.fmt \in {"full", "date"}
           /\ ElapsedSince(Len(gaplog.last.lines)) >= GapSeconds * TicksPerSecond)

\* An entry was written exactly 1800 s after the entry in the last line, and
\* got a gap.
C29_Witness ==
    /\ gaplog.last.done
    /\ gaplog.last.gap
    /\ gaplog.mode = "full"
    /\ gaplog.last.lines # << >>
    /\ LastLineRead.kind = "entry"
    /\ ElapsedSince(Len(gaplog.last.lines)) = GapSeconds * TicksPerSecond

\* check_time_gap had nothing to go by: the mode is none, the file is absent
\* or empty, or its last line carries no timestamp that parses.
NothingToGoBy ==
    \/ gaplog.mode = "none"
    \/ ~gaplog.last.there
    \/ gaplog.last.lines = << >>
    \/ LastLineRead.stamp.fmt \notin {"full", "date"}

(* C30 as stated: check_time_gap reports no gap whenever the mode is none,
   the file is absent or empty, or the last line carries no timestamp that
   parses; so the first entry after a run marker, and the first entry after
   a multi-line failure block, is never preceded by a gap.                 *)
C30_NoGapAfterMarkerOrFailureBlock ==
    gaplog.last.done =>
       /\ NothingToGoBy => ~gaplog.last.gap
       /\ gaplog.last.after = "marker" => ~gaplog.last.gap
       /\ gaplog.last.after = "failure block" => ~gaplog.last.gap

(* C30, amended: check_time_gap reports no gap whenever the mode is none,
   the file is absent or empty, or the last line carries no timestamp that
   parses; so the first entry after a run marker is never preceded by a
   gap, and the first entry after a multi-line failure block is preceded by
   one only when the last line of the captured output itself holds a
   timestamp that parses and lies at least 1800 s before the event.        *)
C30_NoGapWithoutTimestampInLastLine ==
    gaplog.last.done =>
       /\ NothingToGoBy => ~gaplog.last.gap
       /\ gaplog.last.after = "marker" => ~gaplog.last.gap
       /\ gaplog.last.after = "failure block" =>
             (gaplog.last.gap <=>
                 /\ gaplog.mode # "none"
                 /\ LastLineRead.kind = "output"
                 /\ LastLineRead.stamp.fmt \in {"full", "date"}
                 /\ ElapsedSince(Len(gaplog.last.lines))
                       >= GapSeconds * TicksPerSecond)

\* An entry written right after a run marker got no gap although the entry
\* before the marker was more than 1800 s old.
C30_Witness ==
    /\ gaplog.last.done
    /\ ~gaplog.last.gap
    /\ gaplog.last.after = "marker"
    /\ gaplog.mode = "full"
    /\ LastStampRead # 0
    /\ ElapsedSince(LastStampRead) > GapSeconds * TicksPerSecond

\* The step is an invocation for a JSON object that resolves no session
\* name: the transcript it can read holds no title and the name cache is
\* empty (an event that is not a tool event, and was offered a name to
\* adopt, has resolved none when it worked with none).
ResolvesNoName ==
    /\ hist' # hist
    /\ out'.payload = "object"
    /\ IF hist'[Len(hist')].event = "PostToolUse"
       THEN GetSessionName(IF hist'[Len(hist')].transcript
                           THEN title[TheSession] ELSE None,
                           nameCache[TheSession]) = None
       ELSE hist'[Len(hist')].name = None

\* The session has one directory, and it carries a name.
NamedDirs ==
    {d \in DirsOf(world, TheSession) :
        ExtractNameFromDirectory(d, TheSession) # None}

(* C25: once the session's directory carries the name N, an invocation that
   resolves no name leaves the directory under that name, never back under
   the unnamed form, and appends its entry to files of that directory.     *)
C25_NamedDirectoryStaysNamed ==
    [][(ResolvesNoName /\ NamedDirs # {} /\ NamedDirs = DirsOf(world, TheSession)) =>
          /\ DirsOf(world', TheSession) = DirsOf(world, TheSession)
          /\ \A f \in world'.files \ world.files :
                f.mtime = Clock' => f.dir \in NamedDirs]_vars

\* A session that logged under a name has logged with no name resolved, and
\* its directory is back under the unnamed form.
C25_Reached ==
    /\ Len(hist) >= 2
    /\ hist[Len(hist)].name = None
    /\ hist[Len(hist)].logged
    /\ \E l \in 1..(Len(hist) - 1) : hist[l].name # None /\ hist[l].logged
    /\ DirsOf(world, TheSession) = {UnnamedDir}

\* ------------------------------------- a session that loses its name

(* What the program leaves when a session keeps losing its name.  A prelude
   is a list of names; for each name n in turn there is a task event logged
   under the name n that the transcript gives, and then, after
   rename_session.py cleared the name cache (the name it was given sanitized
   to nothing, so the transcript still holds n), a task event whose payload
   names no readable transcript: it resolves no name, the directory goes back
   to its unnamed form and the unnamed files are written next to the named
   ones.  The invocations are those of main(), at clock values 1, 2, ...     *)
LostNames == {<<"x">>, <<"y",":">>}

NothingYet ==
    [w |-> EmptyWorld, started |-> FALSE, counter |-> 0, cache |-> None,
     blob |-> NoState, acks |-> 0, exit |-> "none", name |-> None,
     logged |-> FALSE, run |-> 0]

\* The outcomes of a task event at clock value now that follows outcome o;
\* named: the payload names a transcript, whose last title is n, and the
\* cache is as o left it; otherwise no transcript and the cache cleared.
TaskEventAfter(o, n, named, now) ==
    MainOutcomes(o.w, o.started, o.counter, IF named THEN o.cache ELSE None, o.blob,
                 IF named THEN n ELSE None, named, TheSession, "object", "PostToolUse",
                 None, TRUE, FALSE, now, {})

\* The outcomes of the prelude names, each as the list of the outcomes of
\* its invocations.
RECURSIVE PreludeRuns(_)
PreludeRuns(names) ==
    IF names = << >> THEN {<<NothingYet>>}
    ELSE UNION {UNION {
            {Append(Append(run, o1), o2)
               : o2 \in TaskEventAfter(o1, names[Len(names)], FALSE, 2 * Len(names))}
            : o1 \in TaskEventAfter(run[Len(run)], names[Len(names)], TRUE,
                                    2 * Len(names) - 1)}
            : run \in PreludeRuns(SubSeq(names, 1, Len(names) - 1))}

\* The preludes followed: one loss of a name, and a session that carried one
\* name three times and then another.
Preludes ==
    {<<n>> : n \in LostNames} \cup {<< <<"x">>, <<"x">>, <<"x">>, <<"y",":">> >>}

HistRecord(o, now, has_transcript) ==
    [session |-> TheSession, event |-> "PostToolUse", name |-> o.name,
     logged |-> o.logged, task |-> o.logged, run |-> o.run, time |-> now,
     transcript |-> has_transcript, filtered |-> FALSE, faults |-> {}]

InitNameLost ==
    \E names \in Preludes :
      \E run \in PreludeRuns(names) :
        LET o == run[Len(run)]
        IN  /\ world = o.w
            /\ started = IF o.started THEN {TheSession} ELSE {}
            /\ runCounter = [s \in SessionIds |-> IF s = TheSession THEN o.counter ELSE 0]
            /\ nameCache = [s \in SessionIds |-> IF s = TheSession THEN o.cache ELSE None]
            /\ stateBlob = [s \in SessionIds |-> IF s = TheSession THEN o.blob ELSE NoState]
            /\ title = [s \in SessionIds |->
                           IF s = TheSession THEN names[Len(names)] ELSE None]
            /\ step = 0
            /\ out = [acks |-> o.acks, exit |-> o.exit, payload |-> "object"]
            /\ hist = [l \in 1..(Len(run) - 1) |->
                          HistRecord(run[l + 1], l, l % 2 = 1)]
            /\ lookup = NoLookup
            /\ loaded = NoLoad
            /\ race = NoRace
            /\ ap = NoAppend
            /\ ovf = NoOverflow
            /\ gaplog = NoGapLog

\* The invocations followed after the prelude.
MaxNameLostSteps == 2

\* The session goes on: tool events, titles from the host, rename_session.py.
LaterEvent(has_transcript, is_task) ==
    step < MaxNameLostSteps /\ ToolEvent(TheSession, has_transcript, is_task)

LaterTitle(n) == step < MaxNameLostSteps /\ HostRename(TheSession, n)

LaterRename(n) == step < MaxNameLostSteps /\ RenameSession(TheSession, n)

NextNameLost ==
    \/ \E has_transcript \in BOOLEAN, is_task \in BOOLEAN :
            LaterEvent(has_transcript, is_task)
    \/ \E n \in LostNames : LaterTitle(n)
    \/ \E n \in LostNames : LaterRename(n)

SpecNameLost == InitNameLost /\ [][NextNameLost]_vars

\* The sequence numbers a file name carries: the NNN of every --NNN__ in it.
SeqNumbers(name) ==
    {ParseInt3(SubSeq(name, i + 2, i + 4)) :
        i \in {j \in 1..Len(name) :
                  /\ HasAt(name, j, DASH2)
                  /\ j + 6 <= Len(name)
                  /\ name[j + 2] \in DigitChars
                  /\ name[j + 3] \in DigitChars
                  /\ name[j + 4] \in DigitChars
                  /\ HasAt(name, j + 5, US2)}}

\* The categories whose files the model writes.
WrittenCategories == {i \in 1..Len(Categories) : Categories[i].prefix = << >>}

(* The calls of reconcile_single_category on several files that an
   invocation resolving the name N would make in the current state, after
   main() reconciled the directory: [before, dir, name, files, after, target]. *)
CategoryCalls ==
    UNION {UNION {UNION {
        {[before |-> rd.w, dir |-> rd.dir, name |-> N, cat |-> i,
          files |-> FindSessionFiles(rd.w, rd.dir, TheSession, Categories[i].prefix,
                                     Categories[i].file_type),
          after |-> r.w, target |-> r.target]
           : r \in ReconcileSingleCategory(rd.w, rd.dir, TheSession, N, ShellType, User,
                                           Categories[i].prefix, Categories[i].file_type,
                                           {})}
        : i \in {j \in WrittenCategories :
                    Cardinality(FindSessionFiles(rd.w, rd.dir, TheSession,
                                                 Categories[j].prefix,
                                                 Categories[j].file_type)) >= 2}}
        : rd \in {x \in ReconcileSessionDirectory(world, TheSession, N, User, {}) :
                     ~x.raised}}
        : N \in LostNames}

\* The file that call c found under the name n.
Found(c, n) == FileAt(c.before, c.dir, n)

\* The names under which call c left the file it found under the name n.
LeftAs(c, n) ==
    {m \in NamesIn(c.after, c.dir) :
        /\ FileAt(c.after, c.dir, m).content = Found(c, n).content
        /\ FileAt(c.after, c.dir, m).mtime = Found(c, n).mtime
        /\ MatchesSessionFile(m, TheSession, Categories[c.cat].prefix,
                              Categories[c.cat].file_type)}

\* The files of call c that are older than another one and carry no number.
OlderUnsequenced(c) ==
    {n \in c.files :
        /\ ~HasSequenceNumber(n)
        /\ \E m \in c.files : Found(c, m).mtime > Found(c, n).mtime}

\* The sequence numbers the files of call c carried when it began.
NumbersBefore(c) == UNION {SeqNumbers(n) : n \in c.files}

\* The files of call c that no other file of the call is newer than.
MostRecent(c) ==
    {n \in c.files : \A m \in c.files : Found(c, m).mtime <= Found(c, n).mtime}

\* The canonical unsequenced name of the category of call c.
TargetName(c) ==
    BuildFilename(Categories[c.cat].prefix, Categories[c.cat].file_type, ShellType,
                  c.name, TheSession, User, -1)

\* The canonical name was held, when call c began, by a file that is not
\* the most recent one.
TargetHeld(c) == TargetName(c) \in c.files \ MostRecent(c)

\* The files of the category of call c that it left in the directory.
FilesAfter(c) ==
    FindSessionFiles(c.after, c.dir, TheSession, Categories[c.cat].prefix,
                     Categories[c.cat].file_type)

(* C22: when a category has several files, each older file without a
   sequence number is renamed to a number greater than every number the
   category's files carried, the numbers ascend with the modification
   times, a file that carried a number keeps it, and afterwards no two
   files of the category carry the same number.                            *)
C22_SequenceNumbersAscendAndDiffer ==
    \A c \in CategoryCalls :
        /\ \A n \in OlderUnsequenced(c) : \A m \in LeftAs(c, n) :
              /\ SeqNumbers(m) # {}
              /\ \A k \in SeqNumbers(m) : \A b \in NumbersBefore(c) : k > b
        /\ \A n1 \in OlderUnsequenced(c) : \A n2 \in OlderUnsequenced(c) :
              Found(c, n1).mtime < Found(c, n2).mtime =>
                 \A m1 \in LeftAs(c, n1) : \A m2 \in LeftAs(c, n2) :
                     \A k1 \in SeqNumbers(m1) : \A k2 \in SeqNumbers(m2) : k1 < k2
        /\ \A n \in c.files : HasSequenceNumber(n) => LeftAs(c, n) = {n}
        /\ \A m1 \in FilesAfter(c) : \A m2 \in FilesAfter(c) :
              m1 # m2 => SeqNumbers(m1) \cap SeqNumbers(m2) = {}

\* The name with the sequence number one above the highest that the files
\* of call c carried.
NextFreeName(c) ==
    BuildFilename(Categories[c.cat].prefix, Categories[c.cat].file_type, ShellType,
                  c.name, TheSession, User, 1 + Max({-1} \cup NumbersBefore(c)))

(* C23: reconciling a category with several files returns the canonical
   unsequenced name and leaves the most recently modified file under it,
   unless another file held that name: then the most recent file is left
   under the sequence number one above the highest there was, and the file
   that held the canonical name is still there with what it held.          *)
C23_MostRecentIsCurrent ==
    \A c \in CategoryCalls : \A n \in MostRecent(c) :
        /\ c.target = TargetName(c)
        /\ ~TargetHeld(c) => LeftAs(c, n) = {TargetName(c)}
        /\ TargetHeld(c) =>
              /\ LeftAs(c, n) = {NextFreeName(c)}
              /\ LeftAs(c, TargetName(c)) # {}

(* C24: a file that carries a sequence number is, after every later
   invocation, still there with the content it had, and still under a name
   that carries a sequence number.                                         *)
C24_SequencedFilesAreFinal ==
    [][hist' # hist =>
          \A f \in world.files :
              HasSequenceNumber(f.name) =>
                 \E g \in world'.files :
                     /\ g.content = f.content
                     /\ HasSequenceNumber(g.name)]_vars

(* C31: with timestamp mode date-only, an entry that follows another entry
   gets a gap only when at least 1800 s passed between the writing of the
   entry before it and the event.                                          *)
C31_DateModeGapNeedsHalfAnHour ==
    (gaplog.last.done /\ gaplog.mode = "date" /\ gaplog.last.after = "entry"
        /\ gaplog.last.gap)
       => gaplog.last.since >= GapSeconds * TicksPerSecond

\* Where the files of w hold a start marker written at clock value now.
MarkerPositions(w, now) ==
    UNION {{<<f.dir, f.name, i>> :
               i \in {j \in 1..Len(f.content) :
                         f.content[j][1] = "marker" /\ f.content[j][2] = now}}
             : f \in w.files}

\* Where file f holds a block of the given kind written at clock value now.
BlocksAt(f, kind, now) ==
    {j \in 1..Len(f.content) : f.content[j][1] = kind /\ f.content[j][2] = now}

(* C32: a logged event that finds the started flag of its session absent
   writes the start marker once to the shell log and once to the unified
   log, nowhere else, and sets the flag; a logged event that finds the flag
   writes no marker.                                                       *)
C32_MarkerOnFirstEventOfRun ==
    [][(Len(hist') = Len(hist) + 1 /\ hist'[Len(hist')].logged) =>
          /\ TheSession \in started'
          /\ IF TheSession \in started
             THEN MarkerPositions(world', Clock') = {}
             ELSE /\ Cardinality(MarkerPositions(world', Clock')) = 2
                  /\ \A kind \in {"cmd", "entry"} :
                        \E f \in world'.files :
                            /\ BlocksAt(f, kind, Clock') # {}
                            /\ Cardinality(BlocksAt(f, "marker", Clock')) = 1]_vars

\* Two runs, two events in the first: the unified log holds the marker of
\* run 1, two entries, and the marker of run 2 ahead of its first entry.
C32_Witness ==
    /\ Len(hist) = 3
    /\ \A l \in 1..3 : hist[l].logged
    /\ hist[1].run = 1 /\ hist[2].run = 0 /\ hist[3].run = 2
    /\ TheSession \in started
    /\ \E f \in world.files :
          /\ Len(f.content) = 5
          /\ [i \in 1..5 |-> f.content[i][1]]
                = <<"marker", "entry", "entry", "marker", "entry">>

\* The start markers file f holds that the overlapping invocations wrote.
OverlapMarkers(f) ==
    {j \in 1..Len(f.content) :
        /\ f.content[j][1] = "marker"
        /\ f.content[j][2] \in {EventTime(p) : p \in Processes}}

(* C33: when two invocations of one session overlap at the start of a run,
   the shell log and the unified log each receive one start marker for the
   run, not two.                                                           *)
C33_OneMarkerWhenOverlapping ==
    \A f \in world.files : Cardinality(OverlapMarkers(f)) <= 1

\* File name n belongs to the task history.
IsTasksLog(n) == StartsWith(n, DOT \o TASKS \o US)

(* C34: an invocation that writes a start marker writes it ahead of its
   entry: in every file the marker of the event precedes every block of the
   event, and what follows the marker is of the event; no file of the task
   history receives a marker.                                              *)
C34_MarkerAheadOfFirstEntry ==
    [][Len(hist') = Len(hist) + 1 =>
          \A f \in world'.files :
              /\ \A j \in BlocksAt(f, "marker", Clock') :
                    /\ ~IsTasksLog(f.name)
                    /\ \A k \in 1..Len(f.content) :
                          (f.content[k][1] \in EntryKinds /\ f.content[k][2] = Clock')
                             => j < k
                    /\ \A k \in (j + 1)..Len(f.content) : f.content[k][2] = Clock'
              /\ IsTasksLog(f.name)
                    => \A k \in 1..Len(f.content) : f.content[k][1] # "marker"]_vars

\* A task event is the first logged event of a session, after an event that
\* was not logged: the shell log and the unified log hold marker and entry,
\* the task history holds the task and no marker.
C34_Witness ==
    /\ Len(hist) >= 2
    /\ hist[Len(hist)].logged /\ hist[Len(hist)].task /\ hist[Len(hist)].run = 1
    /\ \E f \in world.files :
          /\ IsTasksLog(f.name)
          /\ BlocksAt(f, "task", Clock) # {}
    /\ \E f \in world.files :
          /\ Len(f.content) = 2
          /\ f.content[1][1] = "marker" /\ f.content[1][2] = Clock
          /\ f.content[2][1] = "entry" /\ f.content[2][2] = Clock

(* C35: an invocation leaves the transcript as it is; it puts an auto-name
   in the name cache only when the event is SessionStart and the resolver
   found no name, and otherwise the cache holds what the resolver found or
   what it held; when the transcript the invocation reads has a title, the
   invocation works with that title whatever the cache held.               *)
C35_AutoNameOnlyInCache ==
    [][Len(hist') = Len(hist) + 1 =>
          LET rec == hist'[Len(hist')]
              s == rec.session
              seen == IF rec.transcript THEN title[s] ELSE None
              found == GetSessionName(seen, nameCache[s])
          IN  /\ title' = title
              /\ IF rec.event = "SessionStart" /\ found = None
                 THEN nameCache'[s] \in AutoNames
                 ELSE nameCache'[s] = CacheAfter(nameCache[s], found)
              /\ seen # None => (rec.name = seen /\ nameCache'[s] = seen)]_vars

\* A SessionStart without a readable transcript auto-named the session x;
\* the next invocation found the title y: in the transcript and worked
\* with it.
C35_Witness ==
    /\ Len(hist) = 2
    /\ hist[1].event = "SessionStart" /\ ~hist[1].transcript
    /\ hist[1].name = <<"x">>
    /\ hist[2].transcript /\ hist[2].name = <<"y",":">>
    /\ nameCache[TheSession] = <<"y",":">>

(* C36: whatever the config files and the environment hold, the Config
   load_configuration returns has a verbosity in 0..4, a timestamp mode
   that is full, date or none, and a failure-capture line cap in 1..1000.  *)
C36_ConfigInRange ==
    (loaded.done /\ ~loaded.config.raised)
       => /\ loaded.config.verbosity \in 0..MaxVerbosity
          /\ loaded.config.datetime_mode \in DatetimeModes
          /\ loaded.config.failure_capture_max_lines \in 1..MaxStderrLines

\* The session file asks for verbosity 5, an unknown timestamp mode and a
\* cap of 1001 lines, the environment for a cap of -5 and verbosity -1.
C36_Witness ==
    /\ loaded.done /\ ~loaded.config.raised
    /\ loaded.global = AbsentFile
    /\ loaded.session =
          JsonFile(JDict("verbosity" :> JInt(MaxVerbosity + 1) @@ "datetime" :> JStr(BOGUS)
                         @@ "failure_capture" :>
                               JDict("max_stderr_lines" :> JInt(MaxStderrLines + 1))))
    /\ loaded.env.max_lines = <<"-","5">> /\ loaded.env.verbosity = <<"-","1">>
    /\ loaded.env.datetime = BOGUS
    /\ loaded.config.verbosity = DefaultVerbosity
    /\ loaded.config.datetime_mode = "full"
    /\ loaded.config.failure_capture_max_lines = 1

\* The events of the model that are not tool events.
NonToolEvents == EventKinds \ {"PostToolUse"}

(* C37: an invocation for an event that is not a tool event leaves a
   directory for the session and a state record that names it and the
   session name it worked with; the log files, whatever their names are
   afterwards, hold what they held before, and the started flags and the
   run counters are as before.                                             *)
C37_NonToolEventWritesNoLog ==
    [][(Len(hist') = Len(hist) + 1 /\ hist'[Len(hist')].event \in NonToolEvents) =>
          LET rec == hist'[Len(hist')]
              s == rec.session
          IN  /\ stateBlob'[s].present
              /\ stateBlob'[s].current_name = rec.name
              /\ stateBlob'[s].sesslog_dir \in world'.dirs
              /\ started' = started
              /\ runCounter' = runCounter
              /\ ~rec.logged /\ rec.run = 0
              /\ Cardinality(world'.files) = Cardinality(world.files)
              /\ \A g \in world'.files : \E f \in world.files : f.content = g.content
              /\ \A f \in world.files : \E g \in world'.files : g.content = f.content]_vars

\* A SessionStart after a logged tool event and a rename by the host: the
\* directory was renamed, the log files and the flag are as the tool event
\* left them.
C37_Witness ==
    /\ Len(hist) = 2
    /\ hist[1].logged /\ hist[1].name = <<"x">>
    /\ hist[2].event = "SessionStart" /\ hist[2].name = <<"y",":">>
    /\ stateBlob[TheSession].current_name = <<"y",":">>
    /\ TheSession \in started
    /\ runCounter[TheSession] = 1
    /\ world.files # {}
    /\ \A f \in world.files : f.dir = stateBlob[TheSession].sesslog_dir

\* The calls of write_session_state for session s that wrote the record.
StateWrites(s) ==
    {l \in 1..Len(hist) : hist[l].session = s /\ hist[l].wrote}

(* C38: the state record of a session exists once a call wrote it; its
   original_cwd is the working directory of the first call that wrote the
   record and its cwd the working directory of the last one.               *)
C38_OriginalCwdSetOnce ==
    \A s \in SessionIds :
        IF StateWrites(s) = {} THEN ~stateBlob[s].present
        ELSE /\ stateBlob[s].present
             /\ stateBlob[s].original_cwd = hist[Min(StateWrites(s))].cwd
             /\ stateBlob[s].cwd = hist[Max(StateWrites(s))].cwd

\* Three calls for one session, in p, in q with a failing write, and with no
\* working directory: original_cwd is p and cwd is empty.
C38_Witness ==
    /\ Len(hist) = 3
    /\ \A l \in 1..3 : hist[l].session = TheSession
    /\ hist[1].cwd = <<"p">> /\ hist[1].wrote
    /\ hist[2].cwd = <<"q">> /\ ~hist[2].wrote
    /\ hist[3].cwd = << >> /\ hist[3].wrote
    /\ stateBlob[TheSession].original_cwd = <<"p">>
    /\ stateBlob[TheSession].cwd = << >>

\* How many times the entry of writer p is stored in a file; the content of
\* a writer is the one character that names it.
TimesIn(f, p) == Cardinality({i \in 1..Len(f.text) : f.text[i] = p})

(* C39: when a call of atomic_append that no other call overlapped has
   returned, its entry is stored at most once, in the target or in the
   overflow file.                                                          *)
C39_EntryStoredAtMostOnce ==
    ap # NoAppend =>
        \A p \in Writers :
            (ap.writers[p].pc = "idle" /\ ap.writers[p].appended > 0
                /\ ap.writers[p].alone)
               => TimesIn(ap.target, p) + TimesIn(ap.overflow, p) <= 1

(* C40: when rename_session ended with status 1 because it could not update
   the transcript, the next hook invocation resolves the name the one before
   the attempt resolved.                                                   *)
C40_FailedRenameKeepsName ==
    (lookup.phase = "done" /\ lookup.exit = 1) => lookup.result = lookup.before

====
